---- MODULE Spec2Model ----
(***************************************************************************)
(* A model of the multimodal document ingestion pipeline (mm_doc_proc):    *)
(*   - PDFIngestionPipeline.process_pdf and its pipeline-state file        *)
(*     (multimodal_processing_pipeline/pdf_ingestion_pipeline.py),         *)
(*   - the Service Bus queue consumer (processing/jobs/main.py),           *)
(*   - the choice of output directory of concurrent ingestion jobs,        *)
(*   - the blob names used by AzureBlobStorage.upload_document_content     *)
(*     (storage/azure_blob_storage.py).                                    *)
(* Text is modelled by TLA+ strings built the way the code builds them.    *)
(* Python's None is the string None below; an optional list is a record    *)
(* [isNone, items].                                                        *)
(***************************************************************************)
EXTENDS Integers, Sequences, FiniteSets, TLC

\* ------------------------------------------------------------------ bounds
\* pages of the PDF (metadata.total_pages ranges over 0..MaxPages)
MaxPages == 2
\* runs of process_pdf over one output directory
MaxRuns == 2
\* visuals (images, tables) the model reports for one page
MaxVisuals == 1
\* writes through write_to_file that fail in one behaviour
MaxWriteFaults == 1
\* messages on the broker's queue when the consumer starts
MaxQueue == 3
\* times the consumer job is started
MaxReceives == 2
\* ingestion jobs running side by side
MaxJobs == 2
\* characters of the file-name stem of a PDF
MaxStem == 2
\* SearchParams.top
MaxTop == 2
\* SearchParams.top_wide_search
MaxWide == 1
\* characters after the stretch of letters of a name given to a sanitizer
MaxTail == 3
\* calls of execute_job
MaxExecutions == 2
\* PDFs a job may be given
MaxDocuments == 2
\* documents sent to the search index in one behaviour
MaxSent == 3
\* DynamicAzureIndexBuilder instances constructed
MaxBuilders == 2
\* terms of one kind expand_searh_terms answers, and top_wide_search, where
\* the terms are paired with the search clients
MaxTerms == 13
\* custom page steps of a configuration put through to_json and back
MaxSteps == 2

\* ------------------------------------------------------ program constants
max_message_count == 1
\* the limits of _safe_container_name and _safe_blob_name
MinContainerNameLength == 3
MaxContainerNameLength == 63
MaxBlobNameLength == 1024
\* the search clients a builder makes in __init__
SearchClients == 25

\* ----------------------------------------------------------------- helpers
Range(s) == {s[i] : i \in 1..Len(s)}

None == "None"

Ordered(S) == {s \in [1..Cardinality(S) -> S] : Range(s) = S}

RECURSIVE JoinLines(_)
\* "\n".join(texts)
JoinLines(texts) ==
    IF texts = <<>> THEN ""
    ELSE IF Len(texts) = 1 THEN texts[1]
    ELSE texts[1] \o "\n" \o JoinLines(Tail(texts))

SelectNonEmpty(texts) == SelectSeq(texts, LAMBDA t : t # "")

\* ------------------------------------------------------------ data model
PipelineState ==
    [text_extracted_pages |-> <<>>,
     custom_page_processing |-> <<>>,
     images_extracted_pages |-> <<>>,
     tables_extracted_pages |-> <<>>,
     post_processing_done |-> FALSE]

DataUnit(text, text_file_path, page_image_path) ==
    [text |-> text, language |-> "en",
     text_file_path |-> text_file_path, page_image_path |-> page_image_path]

TranslatedUnit(text, lang, text_file_path) ==
    [text |-> text, language |-> lang,
     text_file_path |-> text_file_path, page_image_path |-> None]

NoUnit == DataUnit(None, None, None)

PostProcessingContent ==
    [condensed_text |-> NoUnit,
     table_of_contents |-> NoUnit,
     full_text |-> NoUnit,
     translated_full_texts |-> [isNone |-> TRUE, items |-> <<>>],
     translated_condensed_texts |-> [isNone |-> TRUE, items |-> <<>>],
     custom_document_processing_steps |-> <<>>,
     document_json |-> NoUnit]

NoDocument ==
    [present |-> FALSE, total_pages |-> 0, processed_pages |-> 0, pages |-> <<>>,
     full_text |-> None, has_post_processing_content |-> FALSE,
     post_processing_content |-> PostProcessingContent]

\* --------------------------------------------------------- configuration
CustomProcessingStep(name) == [name |-> name, data_model |-> None]

\* the document-level switches of a configuration: all off (the defaults of
\* every switch but save_text_files), or all on
PostSwitches ==
    { [custom_page_processing_steps |-> <<>>,
       save_text_files |-> FALSE, generate_condensed_text |-> FALSE,
       generate_table_of_contents |-> FALSE,
       custom_document_processing_steps |-> <<>>,
       translate_full_text |-> <<>>, translate_condensed_text |-> <<>>],
      [custom_page_processing_steps |-> <<CustomProcessingStep("kw")>>,
       save_text_files |-> TRUE, generate_condensed_text |-> TRUE,
       generate_table_of_contents |-> TRUE,
       custom_document_processing_steps |-> <<CustomProcessingStep("entities")>>,
       translate_full_text |-> <<"fr">>, translate_condensed_text |-> <<"fr">>] }

ProcessingPipelineConfiguration ==
    { [resume_processing_if_interrupted |-> r,
       process_pages_as_jpg |-> TRUE,
       process_text |-> TRUE,
       process_images |-> i,
       process_tables |-> t,
       custom_page_processing_steps |-> s.custom_page_processing_steps,
       save_text_files |-> s.save_text_files,
       generate_condensed_text |-> s.generate_condensed_text,
       generate_table_of_contents |-> s.generate_table_of_contents,
       custom_document_processing_steps |-> s.custom_document_processing_steps,
       translate_full_text |-> s.translate_full_text,
       translate_condensed_text |-> s.translate_condensed_text] :
      r \in BOOLEAN, i \in BOOLEAN, t \in BOOLEAN, s \in PostSwitches }

\* the configurations of the switches taken one by one: the page image
\* format, the three page stages and the three document files each on or
\* off, the custom steps and translations all absent or all present
SwitchConfigurations ==
    { [resume_processing_if_interrupted |-> TRUE,
       process_pages_as_jpg |-> j,
       process_text |-> x,
       process_images |-> i,
       process_tables |-> t,
       custom_page_processing_steps |->
           IF e THEN <<CustomProcessingStep("kw")>> ELSE <<>>,
       save_text_files |-> s,
       generate_condensed_text |-> c,
       generate_table_of_contents |-> o,
       custom_document_processing_steps |->
           IF e THEN <<CustomProcessingStep("entities")>> ELSE <<>>,
       translate_full_text |-> IF e THEN <<"fr">> ELSE <<>>,
       translate_condensed_text |-> IF e THEN <<"fr">> ELSE <<>>] :
      j \in BOOLEAN, x \in BOOLEAN, i \in BOOLEAN, t \in BOOLEAN,
      s \in BOOLEAN, c \in BOOLEAN, o \in BOOLEAN, e \in BOOLEAN }

\* -------------------------------------------------- paths of the artifacts
PageDir(p) == "pages/page_" \o ToString(p)
PageImagePath(cfg, p) ==
    PageDir(p) \o "/page_" \o ToString(p) \o
        (IF cfg.process_pages_as_jpg THEN ".jpg" ELSE ".png")
\* the .jpg convert_png_to_jpg writes beside page_N.png
PageJpgPath(p) == PageDir(p) \o "/page_" \o ToString(p) \o ".jpg"
PageTextPath(p) == PageDir(p) \o "/page_" \o ToString(p) \o ".txt"
PageTwinPath(p) == PageDir(p) \o "/page_" \o ToString(p) \o "_twin.txt"
ImageTextName(p, visual_type, i) ==
    "page_" \o ToString(p) \o "_" \o visual_type \o "_" \o ToString(i) \o ".txt"
ImageTextPath(p, visual_type, i) ==
    PageDir(p) \o "/images/" \o ImageTextName(p, visual_type, i)
TableTextPath(p, i) ==
    PageDir(p) \o "/tables/page_" \o ToString(p) \o "_table_" \o ToString(i) \o ".txt"
StepExtension(step) == IF step.data_model = None THEN ".txt" ELSE ".json"
PageStepPath(p, step) ==
    PageDir(p) \o "/custom_processing/page_step_" \o step.name \o StepExtension(step)
DocumentStepPath(step) ==
    "custom_processing/document_step_" \o step.name \o StepExtension(step)
\* the name _load_post_processing_files looks for
LoadedStepPath(step) ==
    "custom_processing/step_" \o step.name \o StepExtension(step)
TranslationPath(prefix, lang) == "translations/" \o prefix \o "_" \o lang \o ".txt"

\* ------------------------------------------- what the language model says
\* the cleaned text of page p (process_text) or its raw text
PageText(cfg, p) ==
    (IF cfg.process_text THEN "clean text " ELSE "raw text ") \o ToString(p)

VisualTypes == {"graph", "photo"}

EmbeddedImage(visual_type) ==
    [visual_type |-> visual_type,
     visual_description |-> "a " \o visual_type,
     contextual_relevance |-> "relevance",
     analysis |-> "analysis"]

EmbeddedTable(i) ==
    [markdown |-> "|cell " \o ToString(i) \o "|",
     contextual_relevance |-> "relevance",
     analysis |-> "analysis"]

\* EmbeddedImages.detected_visuals, EmbeddedTables.detected_tables_detailed_markdown
DetectedVisuals ==
    UNION { [1..n -> {EmbeddedImage(v) : v \in VisualTypes}] : n \in 0..MaxVisuals }
DetectedTables == { [i \in 1..n |-> EmbeddedTable(i)] : n \in 0..MaxVisuals }


\* ------------------------------------------------------------------ state
VARIABLES
    \* --- the pipeline over one output directory
    config,          \* processing_pipeline_config of every run
    total_pages,     \* metadata.total_pages
    faulty_disk,     \* whether the disk may refuse a write
    state_file,      \* pipeline_state.json: [exists, data]
    files,           \* the text files of the output directory: path -> text
    dirs,            \* the directories made under the output directory
    document_json,   \* document_content.json (NoDocument when absent)
    pipeline_state,  \* self.pipeline_state of the running process
    pc,              \* where process_pdf is
    page_number,     \* the loop variable of process_pdf
    run,             \* runs started so far
    work,            \* the locals of _process_page_with_state
    pages,           \* the list pages of process_pdf
    document,        \* the DocumentContent being built
    write_faults,    \* writes that failed so far
    \* --- history of the pipeline, read by the properties only
    text_calls,      \* page -> times _extract_text_from_page ran
    redone,          \* the stages performed for a page persisted as done
    stage_log,       \* the stages handled in this run, in order
    stage_failed,    \* the first failure of a stage in this run
    json_runs,       \* the documents written by the completed runs, with the run
                     \* and the listing of the output directory it left
    \* --- the queue consumer (processing/jobs/main.py)
    broker_queue,    \* the messages the broker holds, oldest first
    received_msgs,   \* the list received_msgs of receive_messages
    loop_i,          \* how many elements the for loop has taken from the list
    msg,             \* the loop variable msg: what it is bound to
    consumer_pc,     \* where receive_messages is
    leaving,         \* how the try block of the loop body was left
    completed,       \* ids of the messages completed on the broker
    handled,         \* ids of the messages whose job was attempted or error logged
    batch,           \* ids of the messages of the batch received last
    receives,        \* times receive_messages has been started
    \* --- ingestion jobs side by side, each with its PDFIngestionPipeline
    job_config,      \* job -> its configuration (pdf_path, output_directory, resume)
    job_pc,          \* job -> where it is
    output_directory,\* job -> self.output_directory, once constructed
    job_state,       \* job -> the done pages of its self.pipeline_state
    loaded_from,     \* job -> the PDF whose job wrote the state file it loaded
    state_files,     \* output directory -> its pipeline_state.json
    \* --- uploads of the documents of the jobs (storage/azure_blob_storage.py)
    uploading,       \* job -> the document it uploads
    upload_pc,       \* job -> where upload_document_content is
    upload_page,     \* job -> the page the loop over document.pages is at
    blobs,           \* <<container, blob name>> -> the job whose file the blob holds
    \* --- the document tree during upload_document_content
    store_doc,       \* the DocumentContent being uploaded
    local_files,     \* the local paths that are files
    store_pc,        \* where upload_document_content is
    store_page,      \* the page the loop over document.pages is at
    \* --- wide search (search/azure_ai_index_builder.py)
    search_params,   \* the SearchParams given to widen_search: top, top_wide_search
    expanded,        \* the answer of expand_searh_terms
    query_type,      \* search_params.query_type, shared by the worker threads
    search_terms,    \* the list search_terms of widen_search
    thread_pc,       \* worker -> where its widen_step_search is
    thread_vector,   \* worker -> whether its hybrid_search made a vector query
    thread_requests, \* worker -> the requests it sent to the index
    thread_results,  \* worker -> composite_results of its widen_step_search
    wide_pc,         \* where widen_search is
    wide_results,    \* what widen_search returned
    \* --- the name sanitizers of AzureBlobStorage
    name_kind,       \* "container" or "blob"
    given_name,      \* the name given
    safe_name,       \* the sanitizer's result
    safe_again,      \* the sanitizer's result on its own result
    name_pc,         \* how far the name has been sanitized
    \* --- DocumentIngestionJob.execute_job
    exec_pc,         \* the step execute_job is about to perform
    exec_doc,        \* the PDF the job's configuration names
    exec_fails,      \* the step whose service raises in this call, 0 for none
    exec_log,        \* the steps this call has performed
    exec_error,      \* the exception that left execute_job
    job_document,    \* self.document
    cloud_docs,      \* the documents uploaded to the blob storage
    index_exists,    \* whether the search index has been created
    indexed_docs,    \* the documents whose units are in the index
    manifests,       \* the documents recorded in the document database
    executions,      \* calls of execute_job so far

    \* --- DynamicAzureIndexBuilder: the index and the upload path
    key_field_name,  \* self.key_field_name of the builder instance in use
    index_built,     \* whether the index definition was committed to the service
    sent,            \* the documents handed to SearchClient.upload_documents
    uuids,           \* how many uuid4 values have been drawn
    builders,        \* builder instances constructed so far

    \* --- widen_search: the pairing of the search terms with the clients
    pairing_top,     \* search_params.top_wide_search
    pairing_terms,   \* what expand_searh_terms answered
    paired,          \* the terms handed to the pool, each with its client
    pairing_pc,      \* whether widen_search has handed the terms to the pool

    \* --- ProcessingPipelineConfiguration through to_json and from_json_dict
    codec_config,    \* the configuration c
    codec_json,      \* to_json(c)
    codec_loaded,    \* from_json_dict(to_json(c))
    codec_images,    \* per custom page step of the loaded configuration:
                     \* whether the page image is attached when it runs
    codec_pc,        \* how far the round trip has gone

    \* --- a configuration descriptor from its producer to the queue consumer
    json_container,  \* the upload-JSON container: blob name -> JSON file
    event_url,       \* data.url of the blob-created event
    written_config,  \* the configuration the producer wrote
    json_file,       \* the file the consumer downloaded and parsed
    loaded_config,   \* the configuration the consumer loaded
    job_started,     \* whether DocumentIngestionJob.execute_job was called
    intake_pc        \* the producer's and the consumer's position

pipeline_vars ==
    <<config, total_pages, faulty_disk, state_file, files, dirs, document_json,
      pipeline_state, pc, page_number, run, work, pages, document, write_faults,
      text_calls, redone, stage_log, stage_failed, json_runs>>

queue_vars ==
    <<broker_queue, received_msgs, loop_i, msg, consumer_pc, leaving, completed,
      handled, batch, receives>>

jobs_vars == <<job_config, job_pc, output_directory, job_state, loaded_from, state_files>>

upload_vars == <<uploading, upload_pc, upload_page, blobs>>

store_vars == <<store_doc, local_files, store_pc, store_page>>

\* the components modelled after the pipeline, the consumer, the jobs and
\* the blob names
search_vars ==
    <<search_params, expanded, query_type, search_terms, thread_pc, thread_vector,
      thread_requests, thread_results, wide_pc, wide_results>>

names_vars == <<name_kind, given_name, safe_name, safe_again, name_pc>>

intake_vars ==
    <<json_container, event_url, written_config, json_file, loaded_config, job_started,
      intake_pc>>

codec_vars == <<codec_config, codec_json, codec_loaded, codec_images, codec_pc>>

pairing_vars == <<pairing_top, pairing_terms, paired, pairing_pc>>

index_vars == <<key_field_name, index_built, sent, uuids, builders>>

exec_vars ==
    <<exec_pc, exec_doc, exec_fails, exec_log, exec_error, job_document, cloud_docs,
      index_exists, indexed_docs, manifests, executions>>

added_vars ==
    <<store_vars, search_vars, names_vars, exec_vars, index_vars, pairing_vars, codec_vars, intake_vars>>

vars == <<pipeline_vars, queue_vars, jobs_vars, upload_vars, added_vars>>

\* what a pipeline step leaves alone
outside_pipeline == <<queue_vars, jobs_vars, upload_vars, added_vars>>

Ended == {"idle", "done", "dead"}
PostProcessingPcs ==
    {"pp_twin", "pp_condense", "pp_toc", "pp_custom", "pp_tfull", "pp_tcond", "pp_mark"}

NoFailure == [stage |-> "none", page |-> 0]
NoWork ==
    [page_image_path |-> None, extracted_text |-> NoUnit,
     images |-> <<>>, tables |-> <<>>, combined_str |-> "",
     page_processing_steps |-> <<>>]

EmptyFiles == [path \in {} |-> ""]

\* ---------------------------------------------------------- file helpers
CanFail == faulty_disk /\ write_faults < MaxWriteFaults
WriteOutcomes == IF CanFail THEN BOOLEAN ELSE {TRUE}
\* which of n writes fails: none (0) or the k-th
FailingWrites(n) == IF CanFail THEN 0..n ELSE {0}

\* write_to_file(text, text_filename, mode="w"): an exception is printed and
\* swallowed, the file is then left as it was
write_to_file(fs, text, text_filename, ok) ==
    IF ok THEN (text_filename :> text) @@ fs ELSE fs

\* the writes named by idx (path(i) -> text(i)) applied to fs
WriteAll(fs, idx, path(_), text(_)) ==
    [q \in DOMAIN fs \cup {path(i) : i \in idx} |->
        IF \E i \in idx : path(i) = q
        THEN text(CHOOSE i \in idx : path(i) = q)
        ELSE fs[q]]

\* what pix.save and img.save leave in an image file
PageImage == "<image>"

\* convert_png_to_jpg(image_path) on the image of page p: a .png is saved
\* again as .jpg beside it, a .jpg is left alone
convert_png_to_jpg(fs, cfg, p) ==
    IF cfg.process_pages_as_jpg THEN fs ELSE (PageJpgPath(p) :> PageImage) @@ fs

\* read_asset_file(text_filename)[0]: "" when the file cannot be read
read_asset_file(fs, text_filename) ==
    IF text_filename \in DOMAIN fs THEN fs[text_filename] ELSE ""

RecordFailure(stage, p) ==
    IF stage_failed = NoFailure THEN [stage |-> stage, page |-> p] ELSE stage_failed

Log(stage) == Append(stage_log, [page |-> page_number, stage |-> stage])

\* the state after construction over a fresh output directory
Constructed ==
    /\ state_file = [exists |-> FALSE, data |-> PipelineState]
    /\ files = EmptyFiles
    /\ dirs = {"pages"}
    /\ document_json = NoDocument
    /\ pipeline_state = PipelineState
    /\ pc = "idle"
    /\ page_number = 0
    /\ run = 0
    /\ work = NoWork
    /\ pages = <<>>
    /\ document = NoDocument
    /\ write_faults = 0
    /\ text_calls = [p \in 1..MaxPages |-> 0]
    /\ redone = {}
    /\ stage_log = <<>>
    /\ stage_failed = NoFailure
    /\ json_runs = <<>>

\* ------------------------------------------------- pipeline state file
\* _delete_pipeline_state: unlink the file
_delete_pipeline_state(sf) == [exists |-> FALSE, data |-> PipelineState]

\* _load_pipeline_state forgetting the file
_load_pipeline_state_blank(sf) == PipelineState

\* _load_pipeline_state: PipelineState(**data) or a blank PipelineState
_load_pipeline_state(sf) == IF sf.exists THEN sf.data ELSE PipelineState

\* _save_pipeline_state: dump self.pipeline_state to pipeline_state.json
_save_pipeline_state(ps) == [exists |-> TRUE, data |-> ps]

\* a loop that stays on its page
NextPageSame(n) == n

\* range(1, total_pages + 1): the page after page n
NextPage(n) == n + 1

\* a loop that leaves out the last page
LoopHeadShort(n) == IF n < total_pages THEN "render" ELSE "build"

\* the loop head of process_pdf: the next page, or the document
LoopHead(n) == IF n <= total_pages THEN "render" ELSE "build"

\* process_pdf, lines 947-955: the optional reset, then load
StartRun ==
    /\ pc \in Ended
    /\ run < MaxRuns
    /\ LET sf == IF config.resume_processing_if_interrupted
                 THEN state_file ELSE _delete_pipeline_state(state_file)
       IN /\ state_file' = sf
          /\ pipeline_state' = _load_pipeline_state(sf)
    /\ run' = run + 1
    /\ pages' = <<>>
    /\ page_number' = 1
    /\ pc' = LoopHead(1)
    /\ work' = NoWork
    /\ document' = NoDocument
    /\ stage_log' = <<>>
    /\ stage_failed' = NoFailure
    /\ UNCHANGED <<outside_pipeline, config, total_pages, faulty_disk, files, dirs, document_json, write_faults,
                   text_calls, redone, json_runs>>

\* the process ends without returning (killed, or an exception leaves
\* process_pdf): what it held in memory is gone, the output directory stays
Dies ==
    /\ pc' = "dead"
    /\ pipeline_state' = PipelineState
    /\ page_number' = 0
    /\ work' = NoWork
    /\ pages' = <<>>
    /\ document' = NoDocument
    /\ stage_log' = <<>>

\* a stage ends normally: the loop variables of process_pdf stay
Continues(stage) ==
    /\ stage_log' = Log(stage)
    /\ UNCHANGED <<page_number, pages, document>>

Interrupt ==
    /\ pc \notin Ended
    /\ Dies
    /\ UNCHANGED <<outside_pipeline, config, total_pages, faulty_disk, state_file, files, dirs, document_json, run,
                   write_faults, text_calls, redone, stage_failed, json_runs>>

\* _process_page_with_state, lines 868-875, with _save_page_as_image(_jpg)
RenderPage ==
    /\ pc = "render"
    /\ work' = [NoWork EXCEPT !.page_image_path = PageImagePath(config, page_number)]
    /\ dirs' = dirs \cup {PageDir(page_number)}
    /\ files' = (PageImagePath(config, page_number) :> PageImage) @@ files
    /\ pc' = "text"
    /\ UNCHANGED <<outside_pipeline, config, total_pages, faulty_disk, state_file, document_json,
                   pipeline_state, page_number, run, pages, document, write_faults,
                   text_calls, redone, stage_log, stage_failed, json_runs>>

Persisted(list) == state_file.exists /\ page_number \in Range(state_file.data[list])
Redoing(stage, list) == IF Persisted(list) THEN {stage} ELSE {}

\* the test finding no page done
StageDoneNever(list, p) == FALSE

\* the test "page_number not in self.pipeline_state.<list>", negated
StageDone(list, p) == p \in Range(pipeline_state[list])

\* _extract_text_from_page
_extract_text_from_page(p) ==
    DataUnit(PageText(config, p), PageTextPath(p), work.page_image_path)

\* _load_extracted_text
_load_extracted_text(p) ==
    IF PageTextPath(p) \in DOMAIN files
    THEN DataUnit(files[PageTextPath(p)], PageTextPath(p), work.page_image_path)
    ELSE DataUnit("", None, work.page_image_path)

\* _process_page_with_state, lines 877-883
TextStage ==
    /\ pc = "text"
    /\ UNCHANGED <<outside_pipeline, config, total_pages, faulty_disk, state_file, dirs, document_json, run,
                   json_runs>>
    /\ IF ~StageDone("text_extracted_pages", page_number)
       THEN \E llm_ok \in BOOLEAN, write_ok \in WriteOutcomes :
              IF config.process_text /\ ~llm_ok
              THEN /\ Dies
                   /\ stage_failed' = RecordFailure("text", page_number)
                   /\ UNCHANGED <<files, write_faults, text_calls, redone>>
              ELSE /\ Continues("text")
                   /\ files' = write_to_file(files, PageText(config, page_number),
                                             PageTextPath(page_number), write_ok)
                   /\ write_faults' = IF write_ok THEN write_faults ELSE write_faults + 1
                   /\ stage_failed' = IF write_ok THEN stage_failed
                                      ELSE RecordFailure("text", page_number)
                   /\ work' = [work EXCEPT
                                 !.extracted_text = _extract_text_from_page(page_number)]
                   /\ pipeline_state' =
                        [pipeline_state EXCEPT !.text_extracted_pages =
                            Append(@, page_number)]
                   /\ text_calls' = [text_calls EXCEPT ![page_number] = @ + 1]
                   /\ redone' = redone \cup Redoing("text", "text_extracted_pages")
                   /\ pc' = "images"
       ELSE /\ Continues("text")
            /\ work' = [work EXCEPT
                          !.extracted_text = _load_extracted_text(page_number)]
            /\ pc' = "images"
            /\ UNCHANGED <<files, pipeline_state, write_faults, text_calls, redone,
                           stage_failed>>

\* a page stage performed whatever its switch says
StageSwitchIgnored(cfg, switch) == TRUE

\* _process_page_with_state, lines 886 and 894: the test of a stage's switch
StageSwitch(cfg, switch) == cfg[switch]

\* ---- images
FullImageText(img) ==
    img.visual_description \o "\n\n" \o img.contextual_relevance \o "\n\n" \o img.analysis

ExtractedImage(p, image_type, text, text_file_path) ==
    [page_number |-> p, image_path |-> work.page_image_path,
     image_type |-> image_type,
     text |-> DataUnit(text, text_file_path, work.page_image_path)]

\* _extract_images_from_page: the list it returns
_extract_images_from_page(p, detected_visuals) ==
    [i \in 1..Len(detected_visuals) |->
        ExtractedImage(p, detected_visuals[i].visual_type,
                       FullImageText(detected_visuals[i]),
                       ImageTextPath(p, detected_visuals[i].visual_type, i))]

\* images_dir.glob("page_{p}_*_*.txt"), as (visual_type, idx) of each name
ImageFiles(p) ==
    {f \in VisualTypes \X (1..(MaxVisuals + 1)) :
        ImageTextPath(p, f[1], f[2]) \in DOMAIN files}

\* _load_extracted_images, the glob yielding the files in the order found
_load_extracted_images(p, found) ==
    [k \in 1..Len(found) |->
        ExtractedImage(p, found[k][1],
                       files[ImageTextPath(p, found[k][1], found[k][2])],
                       ImageTextPath(p, found[k][1], found[k][2]))]

\* _process_page_with_state, lines 888-894
ImagesStage ==
    /\ pc = "images"
    /\ UNCHANGED <<outside_pipeline, config, total_pages, faulty_disk, state_file, document_json, run, text_calls,
                   json_runs>>
    /\ IF ~StageSwitch(config, "process_images")
       THEN /\ pc' = "tables"
            /\ UNCHANGED <<files, dirs, pipeline_state, page_number, work, pages,
                           document, write_faults, redone, stage_log, stage_failed>>
       ELSE
       IF ~StageDone("images_extracted_pages", page_number)
          THEN \E llm_ok \in BOOLEAN, detected_visuals \in DetectedVisuals :
               \E failing \in FailingWrites(Len(detected_visuals)) :
                 IF ~llm_ok
                 THEN /\ Dies
                      /\ stage_failed' = RecordFailure("images", page_number)
                      /\ files' = convert_png_to_jpg(files, config, page_number)
                      /\ UNCHANGED <<dirs, write_faults, redone>>
                 ELSE /\ Continues("images")
                      /\ files' =
                           WriteAll(convert_png_to_jpg(files, config, page_number),
                                    (1..Len(detected_visuals)) \ {failing},
                                    LAMBDA i : ImageTextPath(page_number,
                                                   detected_visuals[i].visual_type, i),
                                    LAMBDA i : FullImageText(detected_visuals[i]))
                      /\ dirs' = IF detected_visuals # <<>>
                                 THEN dirs \cup {PageDir(page_number) \o "/images"}
                                 ELSE dirs
                      /\ write_faults' = IF failing = 0 THEN write_faults
                                         ELSE write_faults + 1
                      /\ stage_failed' = IF failing = 0 THEN stage_failed
                                         ELSE RecordFailure("images", page_number)
                      /\ work' = [work EXCEPT !.images =
                                    _extract_images_from_page(page_number, detected_visuals)]
                      /\ pipeline_state' =
                           [pipeline_state EXCEPT !.images_extracted_pages =
                               Append(@, page_number)]
                      /\ redone' = redone \cup Redoing("images", "images_extracted_pages")
                      /\ pc' = "tables"
          ELSE \E found \in Ordered(ImageFiles(page_number)) :
                 /\ work' = [work EXCEPT !.images =
                               _load_extracted_images(page_number, found)]
                 /\ Continues("images")
                 /\ pc' = "tables"
                 /\ UNCHANGED <<files, dirs, pipeline_state, write_faults, redone,
                                stage_failed>>

\* ---- tables
FullTableText(tbl) ==
    tbl.markdown \o "\n\n" \o tbl.contextual_relevance \o "\n\n" \o tbl.analysis

ExtractedTable(p, text, text_file_path, summary) ==
    [page_number |-> p,
     text |-> DataUnit(text, text_file_path, work.page_image_path),
     summary |-> summary]

\* _extract_tables_from_page: the list it returns
_extract_tables_from_page(p, detected_tables) ==
    [i \in 1..Len(detected_tables) |->
        ExtractedTable(p, detected_tables[i].markdown, TableTextPath(p, i),
                       detected_tables[i].contextual_relevance \o "\n\n" \o
                           detected_tables[i].analysis)]

\* tables_dir.glob("page_{p}_table_*.txt"), as the idx of each name
TableFiles(p) == {i \in 1..(MaxVisuals + 1) : TableTextPath(p, i) \in DOMAIN files}

\* _load_extracted_tables, the glob yielding the files in the order found
_load_extracted_tables(p, found) ==
    [k \in 1..Len(found) |->
        ExtractedTable(p, files[TableTextPath(p, found[k])],
                       TableTextPath(p, found[k]), None)]

\* _process_page_with_state, lines 896-902
TablesStage ==
    /\ pc = "tables"
    /\ UNCHANGED <<outside_pipeline, config, total_pages, faulty_disk, state_file, document_json, run, text_calls,
                   json_runs>>
    /\ IF ~StageSwitch(config, "process_tables")
       THEN /\ pc' = "combine"
            /\ UNCHANGED <<files, dirs, pipeline_state, page_number, work, pages,
                           document, write_faults, redone, stage_log, stage_failed>>
       ELSE
       IF ~StageDone("tables_extracted_pages", page_number)
          THEN \E llm_ok \in BOOLEAN, detected_tables \in DetectedTables :
               \E failing \in FailingWrites(Len(detected_tables)) :
                 IF ~llm_ok
                 THEN /\ Dies
                      /\ stage_failed' = RecordFailure("tables", page_number)
                      /\ files' = convert_png_to_jpg(files, config, page_number)
                      /\ UNCHANGED <<dirs, write_faults, redone>>
                 ELSE /\ Continues("tables")
                      /\ files' =
                           WriteAll(convert_png_to_jpg(files, config, page_number),
                                    (1..Len(detected_tables)) \ {failing},
                                    LAMBDA i : TableTextPath(page_number, i),
                                    LAMBDA i : FullTableText(detected_tables[i]))
                      /\ dirs' = IF detected_tables # <<>>
                                 THEN dirs \cup {PageDir(page_number) \o "/tables"}
                                 ELSE dirs
                      /\ write_faults' = IF failing = 0 THEN write_faults
                                         ELSE write_faults + 1
                      /\ stage_failed' = IF failing = 0 THEN stage_failed
                                         ELSE RecordFailure("tables", page_number)
                      /\ work' = [work EXCEPT !.tables =
                                    _extract_tables_from_page(page_number, detected_tables)]
                      /\ pipeline_state' =
                           [pipeline_state EXCEPT !.tables_extracted_pages =
                               Append(@, page_number)]
                      /\ redone' = redone \cup Redoing("tables", "tables_extracted_pages")
                      /\ pc' = "combine"
          ELSE \E found \in Ordered(TableFiles(page_number)) :
                 /\ work' = [work EXCEPT !.tables =
                               _load_extracted_tables(page_number, found)]
                 /\ Continues("tables")
                 /\ pc' = "combine"
                 /\ UNCHANGED <<files, dirs, pipeline_state, write_faults, redone,
                                stage_failed>>

\* ---- combine
RECURSIVE ImagesBlock(_, _)
ImagesBlock(images, i) ==
    IF i > Len(images) THEN ""
    ELSE "### - Image " \o ToString(i) \o ":\n" \o
         (IF images[i].text.text # "" THEN images[i].text.text \o "\n\n" ELSE "") \o
         ImagesBlock(images, i + 1)

RECURSIVE TablesBlock(_, _)
TablesBlock(tables, i) ==
    IF i > Len(tables) THEN ""
    ELSE "### - Table " \o ToString(i) \o ":\n\n" \o
         (IF tables[i].text.text # "" THEN tables[i].text.text \o "\n\n" ELSE "") \o
         (IF tables[i].summary \notin {None, ""}
          THEN "Summary:\n" \o tables[i].summary \o "\n\n" ELSE "") \o
         TablesBlock(tables, i + 1)

_combine_page_content(p, extracted_text, page_image_path, images, tables) ==
    "##### --- Page " \o ToString(p) \o " ---\n\n" \o
    "# Extracted Text\n\n" \o
    (IF extracted_text.text # "" THEN extracted_text.text \o "\n\n" ELSE "") \o
    (IF images # <<>> THEN "\n# Embedded Images:\n\n" \o ImagesBlock(images, 1) ELSE "") \o
    (IF tables # <<>> THEN "\n# Tables:\n\n" \o TablesBlock(tables, 1) ELSE "") \o
    "<br/>\n<br/>\n<img src=\"" \o page_image_path \o "\" alt=\"Page Number " \o
    ToString(p) \o "\" width=\"300\" height=\"425\">" \o "\n\n\n\n"

\* _process_page_with_state, lines 904-913
CombinePage ==
    /\ pc = "combine"
    /\ \E write_ok \in WriteOutcomes :
         LET combined_str ==
                 _combine_page_content(page_number, work.extracted_text,
                                       work.page_image_path, work.images, work.tables)
         IN /\ work' = [work EXCEPT !.combined_str = combined_str]
            /\ files' = write_to_file(files, combined_str, PageTwinPath(page_number),
                                      write_ok)
            /\ write_faults' = IF write_ok THEN write_faults ELSE write_faults + 1
    /\ Continues("combine")
    /\ pc' = "custom_page"
    /\ UNCHANGED <<outside_pipeline, config, total_pages, faulty_disk, state_file, dirs, document_json,
                   pipeline_state, run, text_calls, redone, stage_failed, json_runs>>

\* ---- custom steps of a page
\* apply_custom_page_processing_prompt: what the model answers for a step
CustomPageText(step, page_text) == "[" \o step.name \o "] of " \o page_text

\* apply_page_processing_steps, the loop over the configured steps, all of
\* them performed (the page is not yet in custom_page_processing)
PerformedPageSteps(steps, p) ==
    [i \in 1..Len(steps) |->
        DataUnit(CustomPageText(steps[i], work.combined_str),
                 PageStepPath(p, steps[i]), work.page_image_path)]

\* ... all of them reloaded (the page is in custom_page_processing)
ReloadedPageSteps(steps, p) ==
    [i \in 1..Len(steps) |->
        DataUnit(read_asset_file(files, PageStepPath(p, steps[i])),
                 PageStepPath(p, steps[i]), work.page_image_path)]

\* _process_page_with_state, line 916, and apply_page_processing_steps
CustomPageStage ==
    /\ pc = "custom_page"
    /\ dirs' = dirs \cup {PageDir(page_number) \o "/custom_processing"}
    /\ UNCHANGED <<outside_pipeline, config, total_pages, faulty_disk, state_file, document_json, run, text_calls,
                   json_runs>>
    /\ LET steps == config.custom_page_processing_steps IN
       IF ~StageDone("custom_page_processing", page_number)
       THEN \E raising \in 0..Len(steps) : \E failing \in FailingWrites(Len(steps)) :
              LET written == IF raising = 0 THEN (1..Len(steps)) \ {failing}
                             ELSE (1..(raising - 1)) \ {failing}
                  failed == failing # 0 /\ (raising = 0 \/ failing < raising)
                  fs == WriteAll(files, written,
                                 LAMBDA i : PageStepPath(page_number, steps[i]),
                                 LAMBDA i : CustomPageText(steps[i], work.combined_str))
              IN /\ files' = fs
                 /\ write_faults' = IF failed THEN write_faults + 1 ELSE write_faults
                 /\ IF raising # 0
                    THEN /\ Dies
                         /\ stage_failed' = RecordFailure("custom_page", page_number)
                         /\ UNCHANGED redone
                    ELSE /\ Continues("custom_page")
                         /\ stage_failed' =
                              IF failed THEN RecordFailure("custom_page", page_number)
                              ELSE stage_failed
                         /\ work' = [work EXCEPT !.page_processing_steps =
                                       PerformedPageSteps(steps, page_number)]
                         /\ pipeline_state' =
                              [pipeline_state EXCEPT !.custom_page_processing =
                                  Append(@, page_number)]
                         /\ redone' = redone \cup Redoing("custom_page", "custom_page_processing")
                         /\ pc' = "finish_page"
       ELSE /\ Continues("custom_page")
            /\ work' = [work EXCEPT !.page_processing_steps =
                          ReloadedPageSteps(steps, page_number)]
            /\ pipeline_state' =
                 [pipeline_state EXCEPT !.custom_page_processing =
                     Append(@, page_number)]
            /\ pc' = "finish_page"
            /\ UNCHANGED <<files, write_faults, redone, stage_failed>>

\* ---- end of a page
PageContent(p, w) ==
    [page_number |-> p,
     text |-> [page_number |-> p, text |-> w.extracted_text],
     page_image_path |-> w.page_image_path,
     images |-> w.images,
     tables |-> w.tables,
     page_text |-> DataUnit(w.combined_str, PageTwinPath(p), w.page_image_path),
     custom_page_processing_steps |-> w.page_processing_steps]

\* _process_page_with_state, lines 918-933, and process_pdf, lines 957-961
FinishPage ==
    /\ pc = "finish_page"
    /\ pages' = Append(pages, PageContent(page_number, work))
    /\ state_file' = _save_pipeline_state(pipeline_state)
    /\ page_number' = NextPage(page_number)
    /\ pc' = LoopHead(NextPage(page_number))
    /\ work' = NoWork
    /\ UNCHANGED <<outside_pipeline, config, total_pages, faulty_disk, files, dirs, document_json, pipeline_state,
                   run, document, write_faults, text_calls, redone,
                   stage_log, stage_failed, json_runs>>

\* ---- the document
\* a test that asks for post-processing whatever the state
PostProcessingAlways(ps) == TRUE

\* process_pdf, line 977: "if not self.pipeline_state.post_processing_done"
PostProcessingNeeded(ps) == ~ps.post_processing_done

\* process_pdf, lines 963-977
BuildDocument ==
    /\ pc = "build"
    /\ document' =
         [present |-> TRUE,
          total_pages |-> total_pages,
          processed_pages |-> Len(pages),
          pages |-> pages,
          full_text |-> JoinLines(SelectNonEmpty(
                            [i \in 1..Len(pages) |-> pages[i].page_text.text])),
          has_post_processing_content |-> FALSE,
          post_processing_content |-> PostProcessingContent]
    /\ pc' = IF PostProcessingNeeded(pipeline_state) THEN "pp_twin" ELSE "pp_load"
    /\ UNCHANGED <<outside_pipeline, config, total_pages, faulty_disk, state_file, files, dirs, document_json,
                   pipeline_state, page_number, run, work, pages, write_faults,
                   text_calls, redone, stage_log, stage_failed, json_runs>>

\* what the language model answers at document level
CondensedText(full_text) == "condensed: " \o full_text
TableOfContentsText(full_text) == "contents: " \o full_text
CustomDocumentText(step, full_text) == "[" \o step.name \o "] of " \o full_text
TranslatedText(text, lang) == "(" \o lang \o ") " \o text

\* document_content.post_processing_content with one field set, created first
\* when it is None
WithPostProcessing(doc, field, value) ==
    [doc EXCEPT !.has_post_processing_content = TRUE,
                !.post_processing_content[field] = value]

\* the frame of a post-processing step that does not end the process
PostStepFrame ==
    UNCHANGED <<outside_pipeline, config, total_pages, faulty_disk, state_file, document_json, pipeline_state,
                page_number, run, work, pages, text_calls, redone, stage_log,
                stage_failed, json_runs>>

\* the frame of a post-processing step in which the language model raises
PostStepDies ==
    /\ Dies
    /\ stage_failed' = RecordFailure("post_processing", 0)
    /\ UNCHANGED <<outside_pipeline, config, total_pages, faulty_disk, state_file, document_json, run, text_calls,
                   redone, json_runs>>

\* _post_processing_steps, lines 704-705, and save_text_twin
SaveTextTwin ==
    /\ pc = "pp_twin"
    /\ pc' = "pp_condense"
    /\ PostStepFrame
    /\ UNCHANGED dirs
    /\ IF config.save_text_files
       THEN \E write_ok \in WriteOutcomes :
              /\ files' = write_to_file(files, document.full_text, "text_twin.md", write_ok)
              /\ write_faults' = IF write_ok THEN write_faults ELSE write_faults + 1
              /\ document' = WithPostProcessing(document, "full_text",
                                 DataUnit(document.full_text, "text_twin.md", None))
       ELSE UNCHANGED <<files, write_faults, document>>

\* _post_processing_steps, lines 707-708, and condense_text
CondenseText ==
    /\ pc = "pp_condense"
    /\ UNCHANGED dirs
    /\ IF config.generate_condensed_text /\ document.full_text # ""
       THEN \E llm_ok \in BOOLEAN, write_ok \in WriteOutcomes :
              IF ~llm_ok
              THEN PostStepDies /\ UNCHANGED <<files, write_faults>>
              ELSE /\ PostStepFrame
                   /\ pc' = "pp_toc"
                   /\ files' = write_to_file(files, CondensedText(document.full_text),
                                             "condensed_text.md", write_ok)
                   /\ write_faults' = IF write_ok THEN write_faults ELSE write_faults + 1
                   /\ document' = WithPostProcessing(document, "condensed_text",
                                      DataUnit(CondensedText(document.full_text),
                                               "condensed_text.md", None))
       ELSE /\ PostStepFrame
            /\ pc' = "pp_toc"
            /\ UNCHANGED <<files, write_faults, document>>

\* _post_processing_steps, lines 710-711, and generate_table_of_contents
GenerateTableOfContents ==
    /\ pc = "pp_toc"
    /\ UNCHANGED dirs
    /\ IF config.generate_table_of_contents /\ document.full_text # ""
       THEN \E llm_ok \in BOOLEAN, write_ok \in WriteOutcomes :
              IF ~llm_ok
              THEN PostStepDies /\ UNCHANGED <<files, write_faults>>
              ELSE /\ PostStepFrame
                   /\ pc' = "pp_custom"
                   /\ files' = write_to_file(files, TableOfContentsText(document.full_text),
                                             "table_of_contents.md", write_ok)
                   /\ write_faults' = IF write_ok THEN write_faults ELSE write_faults + 1
                   /\ document' = WithPostProcessing(document, "table_of_contents",
                                      DataUnit(TableOfContentsText(document.full_text),
                                               "table_of_contents.md", None))
       ELSE /\ PostStepFrame
            /\ pc' = "pp_custom"
            /\ UNCHANGED <<files, write_faults, document>>

\* apply_custom_document_processing: the data units of the steps
DocumentStepUnits(steps, full_text) ==
    [i \in 1..Len(steps) |->
        DataUnit(CustomDocumentText(steps[i], full_text), DocumentStepPath(steps[i]),
                 None)]

\* _post_processing_steps, lines 713-714, and apply_custom_document_processing
CustomDocumentProcessing ==
    /\ pc = "pp_custom"
    /\ LET steps == config.custom_document_processing_steps IN
       IF Len(steps) > 0 /\ document.full_text # ""
       THEN \E raising \in 0..Len(steps) : \E failing \in FailingWrites(Len(steps)) :
              LET written == IF raising = 0 THEN (1..Len(steps)) \ {failing}
                             ELSE (1..(raising - 1)) \ {failing}
                  failed == failing # 0 /\ (raising = 0 \/ failing < raising)
              IN /\ dirs' = dirs \cup {"custom_processing"}
                 /\ files' = WriteAll(files, written,
                                 LAMBDA i : DocumentStepPath(steps[i]),
                                 LAMBDA i : CustomDocumentText(steps[i], document.full_text))
                 /\ write_faults' = IF failed THEN write_faults + 1 ELSE write_faults
                 /\ IF raising # 0
                    THEN PostStepDies
                    ELSE /\ PostStepFrame
                         /\ pc' = "pp_tfull"
                         /\ document' =
                              WithPostProcessing(document,
                                  "custom_document_processing_steps",
                                  DocumentStepUnits(steps, document.full_text))
       ELSE /\ PostStepFrame
            /\ pc' = "pp_tfull"
            /\ UNCHANGED <<files, dirs, write_faults, document>>

\* _translate_text over langs: the units appended, all to translated_full_texts
TranslationUnits(text, langs, filename_prefix) ==
    [i \in 1..Len(langs) |->
        TranslatedUnit(TranslatedText(text, langs[i]), langs[i],
                       TranslationPath(filename_prefix, langs[i]))]

\* the loop of translate_full_text / translate_condensed_text over langs,
\* each turn being _translate_text(document, text, lang, filename_prefix)
TranslateAll(text, langs, filename_prefix, next_pc) ==
    \E raising \in 0..Len(langs) : \E failing \in FailingWrites(Len(langs)) :
      LET written == IF raising = 0 THEN (1..Len(langs)) \ {failing}
                     ELSE (1..(raising - 1)) \ {failing}
          failed == failing # 0 /\ (raising = 0 \/ failing < raising)
          before == document.post_processing_content.translated_full_texts.items
      IN /\ dirs' = dirs \cup {"translations"}
         /\ files' = WriteAll(files, written,
                         LAMBDA i : TranslationPath(filename_prefix, langs[i]),
                         LAMBDA i : TranslatedText(text, langs[i]))
         /\ write_faults' = IF failed THEN write_faults + 1 ELSE write_faults
         /\ IF raising # 0
            THEN PostStepDies
            ELSE /\ PostStepFrame
                 /\ pc' = next_pc
                 /\ document' =
                      WithPostProcessing(document, "translated_full_texts",
                          [isNone |-> FALSE,
                           items |-> before \o
                                     TranslationUnits(text, langs, filename_prefix)])

\* _post_processing_steps, line 717, and translate_full_text
TranslateFullText ==
    /\ pc = "pp_tfull"
    /\ IF config.translate_full_text # <<>>
       THEN TranslateAll(document.full_text, config.translate_full_text, "full_text",
                         "pp_tcond")
       ELSE /\ PostStepFrame
            /\ pc' = "pp_tcond"
            /\ UNCHANGED <<files, dirs, write_faults, document>>

\* _post_processing_steps, line 718, and translate_condensed_text: the
\* argument post_processing_content.condensed_text.text raises when there is
\* no condensed text
TranslateCondensedText ==
    /\ pc = "pp_tcond"
    /\ IF config.translate_condensed_text # <<>>
       THEN IF document.post_processing_content.condensed_text = NoUnit
            THEN PostStepDies /\ UNCHANGED <<files, dirs, write_faults>>
            ELSE TranslateAll(document.post_processing_content.condensed_text.text,
                              config.translate_condensed_text, "condensed_text",
                              "pp_mark")
       ELSE /\ PostStepFrame
            /\ pc' = "pp_mark"
            /\ UNCHANGED <<files, dirs, write_faults, document>>

\* process_pdf, lines 979-980
MarkPostProcessingDone ==
    /\ pc = "pp_mark"
    /\ pipeline_state' = [pipeline_state EXCEPT !.post_processing_done = TRUE]
    /\ state_file' = _save_pipeline_state(pipeline_state')
    /\ pc' = "save_json"
    /\ UNCHANGED <<outside_pipeline, config, total_pages, faulty_disk, files, dirs, document_json, page_number, run,
                   work, pages, document, write_faults, text_calls, redone,
                   stage_log, stage_failed, json_runs>>

\* ---- reloading the post-processing files
\* the last five characters of the name "<prefix>_<lang>.txt": the last
\* character of lang, the dot, "txt"
NameEnd(last_of_lang) == <<last_of_lang, ".", "t", "x", "t">>

\* re.match(r"^(full_text|condensed_text)_(\w+)\\.txt$", filename), decided on
\* the last five characters: the pattern ends with a backslash, any one
\* character, then "txt"
TranslationNameMatches(name_end) ==
    /\ name_end[1] = "\\"
    /\ <<name_end[3], name_end[4], name_end[5]>> = <<"t", "x", "t">>

LastCharacter(lang) == IF lang = "fr" THEN "r" ELSE "x"

\* the files of translations/ whose name the pattern accepts, as (prefix, lang)
MatchedTranslations ==
    {f \in {"full_text", "condensed_text"} \X {"fr"} :
        /\ TranslationPath(f[1], f[2]) \in DOMAIN files
        /\ TranslationNameMatches(NameEnd(LastCharacter(f[2])))}

LoadedUnit(doc, field, path) ==
    IF path \in DOMAIN files
    THEN WithPostProcessing(doc, field, DataUnit(files[path], path, None))
    ELSE doc

\* a list field that is None or empty becomes []
EmptiedIfFalsy(list) == IF list.isNone \/ list.items = <<>>
                        THEN [isNone |-> FALSE, items |-> <<>>] ELSE list

\* _load_post_processing_files: the document it leaves, found being the
\* accepted translation files in the order of the glob
_load_post_processing_files(doc, found) ==
    LET d0 == [doc EXCEPT !.has_post_processing_content = TRUE]
        d1 == IF "text_twin.md" \in DOMAIN files
              THEN [LoadedUnit(d0, "full_text", "text_twin.md")
                       EXCEPT !.full_text = files["text_twin.md"]]
              ELSE d0
        d2 == LoadedUnit(d1, "condensed_text", "condensed_text.md")
        d3 == LoadedUnit(d2, "table_of_contents", "table_of_contents.md")
        d4 == IF document_json.present
              THEN WithPostProcessing(d3, "document_json",
                                      DataUnit("", "document_content.json", None))
              ELSE d3
        unit(f) == TranslatedUnit(files[TranslationPath(f[1], f[2])], f[2],
                                  TranslationPath(f[1], f[2]))
        of(prefix) == SelectSeq(found, LAMBDA f : f[1] = prefix)
        full == of("full_text")
        cond == of("condensed_text")
        ppc == d4.post_processing_content
    IN IF "translations" \in dirs
       THEN [d4 EXCEPT
               !.post_processing_content.translated_full_texts =
                   [isNone |-> FALSE,
                    items |-> EmptiedIfFalsy(ppc.translated_full_texts).items \o
                              [k \in 1..Len(full) |-> unit(full[k])]],
               !.post_processing_content.translated_condensed_texts =
                   [isNone |-> FALSE,
                    items |-> EmptiedIfFalsy(ppc.translated_condensed_texts).items \o
                              [k \in 1..Len(cond) |-> unit(cond[k])]]]
       ELSE d4

\* process_pdf, line 983. A file custom_processing/step_<name> would be
\* assigned to a field PostProcessingContent does not have, which raises.
LoadPostProcessingFiles ==
    /\ pc = "pp_load"
    /\ UNCHANGED <<files, dirs, write_faults>>
    /\ IF \E i \in DOMAIN config.custom_document_processing_steps :
            LoadedStepPath(config.custom_document_processing_steps[i]) \in DOMAIN files
       THEN PostStepDies
       ELSE /\ PostStepFrame
            /\ pc' = "save_json"
            /\ \E found \in Ordered(MatchedTranslations) :
                 document' = _load_post_processing_files(document, found)

\* process_pdf, lines 986-990, and save_document_content_json
\* what Path(output_directory).rglob("*") yields: every file and folder
OutputListing(fs, ds, sf) ==
    DOMAIN fs \cup ds \cup {"document_content.json"} \cup
        (IF sf.exists THEN {"pipeline_state.json"} ELSE {})

SaveDocumentContentJson ==
    /\ pc = "save_json"
    /\ document' = WithPostProcessing(document, "document_json",
                       DataUnit("", "document_content.json", None))
    /\ document_json' = document'
    /\ json_runs' = Append(json_runs,
                           [run |-> run, document |-> document',
                            listing |-> OutputListing(files, dirs, state_file)])
    /\ pc' = "done"
    /\ pages' = <<>>
    /\ UNCHANGED <<outside_pipeline, config, total_pages, faulty_disk, state_file, files, dirs, pipeline_state,
                   page_number, run, work, write_faults, text_calls, redone,
                   stage_log, stage_failed>>

PipelineNext ==
    \/ StartRun
    \/ Interrupt
    \/ RenderPage
    \/ TextStage
    \/ ImagesStage
    \/ TablesStage
    \/ CombinePage
    \/ CustomPageStage
    \/ FinishPage
    \/ BuildDocument
    \/ SaveTextTwin
    \/ CondenseText
    \/ GenerateTableOfContents
    \/ CustomDocumentProcessing
    \/ TranslateFullText
    \/ TranslateCondensedText
    \/ MarkPostProcessingDone
    \/ LoadPostProcessingFiles
    \/ SaveDocumentContentJson

\* every configuration, a disk that accepts every write
PipelineInit ==
    /\ config \in ProcessingPipelineConfiguration
    /\ total_pages \in 0..MaxPages
    /\ faulty_disk = FALSE
    /\ Constructed

\* every switch on or off by itself, a PDF of one page
SwitchesInit ==
    /\ config \in SwitchConfigurations
    /\ total_pages = 1
    /\ faulty_disk = FALSE
    /\ Constructed

\* resuming configurations with every page stage on, a disk that may refuse
\* a write
FaultyInit ==
    /\ config \in {c \in ProcessingPipelineConfiguration :
                      /\ c.resume_processing_if_interrupted
                      /\ c.process_images /\ c.process_tables}
    /\ total_pages \in 0..MaxPages
    /\ faulty_disk = TRUE
    /\ Constructed



\* ========================================================= queue consumer
\* the bodies of the messages: text that is not JSON, JSON without a data
\* field, a blob-created event
MessageBodies == {"not_json", "no_data", "event"}

Message(id, body) == [id |-> id, body |-> body]

\* what the loop variable is bound to: the received message, or the dict
\* json.loads returned, which "msg = json.loads(msg_content)" puts in its place
NoMsg == [bound |-> "nothing", id |-> 0, body |-> "not_json"]
BoundToMessage(m) == [bound |-> "message", id |-> m.id, body |-> m.body]
BoundToDict(m) == [bound |-> "dict", id |-> m.id, body |-> m.body]

RECURSIVE RemoveFirst(_, _)
\* list.remove(x): the list without its first element of id x
RemoveFirst(list, id) ==
    IF list = <<>> THEN <<>>
    ELSE IF Head(list).id = id THEN Tail(list)
    ELSE <<Head(list)>> \o RemoveFirst(Tail(list), id)

Min(a, b) == IF a < b THEN a ELSE b

QueueIdle ==
    /\ received_msgs = <<>>
    /\ loop_i = 0
    /\ msg = NoMsg
    /\ consumer_pc = "idle"
    /\ leaving = "none"
    /\ completed = {}
    /\ handled = {}
    /\ batch = {}
    /\ receives = 0

QueueInit ==
    /\ broker_queue \in
         UNION { {[k \in 1..n |-> Message(k, body[k])] : body \in [1..n -> MessageBodies]} :
                 n \in 0..MaxQueue }
    /\ QueueIdle

queue_frame == UNCHANGED <<pipeline_vars, jobs_vars, upload_vars, added_vars>>

\* receive_messages, lines 180-188: the batch, at most max_message_count
\* messages, which stay on the broker until they are completed
ReceiveBatch ==
    /\ consumer_pc = "idle"
    /\ receives < MaxReceives
    /\ receives' = receives + 1
    /\ LET got == SubSeq(broker_queue, 1, Min(max_message_count, Len(broker_queue)))
       IN /\ received_msgs' = got
          /\ batch' = {got[k].id : k \in 1..Len(got)}
          /\ consumer_pc' = IF Len(got) = 0 THEN "closing" ELSE "loop"
    /\ loop_i' = 0
    /\ msg' = NoMsg
    /\ leaving' = "none"
    /\ UNCHANGED <<broker_queue, completed, handled>>
    /\ queue_frame

\* line 189, "for i, msg in enumerate(received_msgs)": the next element of
\* the list as it is now, or the end of the loop
NextMessage ==
    /\ consumer_pc = "loop"
    /\ IF loop_i < Len(received_msgs)
       THEN /\ msg' = BoundToMessage(received_msgs[loop_i + 1])
            /\ loop_i' = loop_i + 1
            /\ consumer_pc' = "parse"
       ELSE /\ consumer_pc' = "closing"
            /\ UNCHANGED <<msg, loop_i>>
    /\ leaving' = "none"
    /\ UNCHANGED <<broker_queue, received_msgs, completed, handled, batch, receives>>
    /\ queue_frame

\* lines 197-210: json.loads; a JSONDecodeError is logged, raised again,
\* caught by "except Exception" (line 284), which continues
ParseMessage ==
    /\ consumer_pc = "parse"
    /\ IF msg.body = "not_json"
       THEN /\ handled' = handled \cup {msg.id}
            /\ leaving' = "continue"
            /\ consumer_pc' = "finally"
            /\ UNCHANGED msg
       ELSE /\ msg' = BoundToDict(msg)
            /\ consumer_pc' = "fields"
            /\ UNCHANGED <<handled, leaving>>
    /\ UNCHANGED <<broker_queue, received_msgs, loop_i, completed, batch, receives>>
    /\ queue_frame

\* lines 215-242: the fields of the event; without data the error is logged
\* and the loop continues
ExtractFields ==
    /\ consumer_pc = "fields"
    /\ IF msg.body = "no_data"
       THEN /\ handled' = handled \cup {msg.id}
            /\ leaving' = "continue"
            /\ consumer_pc' = "finally"
       ELSE /\ consumer_pc' = "job"
            /\ UNCHANGED <<handled, leaving>>
    /\ UNCHANGED <<broker_queue, received_msgs, loop_i, msg, completed, batch, receives>>
    /\ queue_frame

\* lines 244-286: the configuration is downloaded and the ingestion job
\* executed; success breaks out of the loop, an exception is printed and the
\* loop continues
RunJob ==
    /\ consumer_pc = "job"
    /\ \E outcome \in {"failed", "succeeded"} :
         leaving' = IF outcome = "succeeded" THEN "break" ELSE "continue"
    /\ handled' = handled \cup {msg.id}
    /\ consumer_pc' = "finally"
    /\ UNCHANGED <<broker_queue, received_msgs, loop_i, msg, completed, batch, receives>>
    /\ queue_frame

\* lines 287-291, the finally block: complete_message(msg) and
\* received_msgs.remove(msg). Given the dict in place of the message, no
\* message is completed and an exception leaves the loop (line 292).
CompleteMessage ==
    /\ consumer_pc = "finally"
    /\ IF msg.bound = "message"
       THEN /\ completed' = completed \cup {msg.id}
            /\ broker_queue' = RemoveFirst(broker_queue, msg.id)
            /\ received_msgs' = RemoveFirst(received_msgs, msg.id)
            /\ consumer_pc' = IF leaving = "break" THEN "closing" ELSE "loop"
       ELSE /\ consumer_pc' = "closing"
            /\ UNCHANGED <<completed, broker_queue, received_msgs>>
    /\ UNCHANGED <<loop_i, msg, leaving, handled, batch, receives>>
    /\ queue_frame

\* lines 294-297: the receiver and the client are closed and the job ends;
\* the broker keeps the messages that were not completed
CloseReceiver ==
    /\ consumer_pc = "closing"
    /\ consumer_pc' = "idle"
    /\ received_msgs' = <<>>
    /\ msg' = NoMsg
    /\ loop_i' = 0
    /\ leaving' = "none"
    /\ UNCHANGED <<broker_queue, completed, handled, batch, receives>>
    /\ queue_frame

QueueNext ==
    \/ ReceiveBatch
    \/ NextMessage
    \/ ParseMessage
    \/ ExtractFields
    \/ RunJob
    \/ CompleteMessage
    \/ CloseReceiver

\* ===================================================== jobs side by side
\* Text is a sequence of characters here; "processed/" and the like stand
\* for runs of characters that hold no space.
Characters == {"r", " ", "_"}
Stems == UNION { [1..n -> Characters] : n \in 1..MaxStem }
Folders == {"inbox/", "archive/"}

\* a PDF path, by its folder and its stem (the name without ".pdf")
PdfPaths == [folder : Folders, stem : Stems]
NoPdf == [folder |-> "", stem |-> <<>>]

\* str.replace(old, new)
Replace(text, old, new) ==
    [k \in 1..Len(text) |-> IF text[k] = old THEN new ELSE text[k]]

\* PDFIngestionPipeline.__init__, lines 83-90: self.output_directory
OutputDirectoryOf(cfg) ==
    Replace(IF cfg.output_directory # <<>>
            THEN cfg.output_directory
            ELSE <<"processed/">> \o cfg.pdf_path.stem,
            " ", "_")

Jobs == 1..MaxJobs

JobConfigurations ==
    [pdf_path : PdfPaths, output_directory : {<<>>, <<"my", " ", "out/">>},
     resume_processing_if_interrupted : BOOLEAN]

NoStateFiles == [d \in {} |-> <<>>]

JobsIdle ==
    /\ job_pc = [j \in Jobs |-> "new"]
    /\ output_directory = [j \in Jobs |-> <<>>]
    /\ job_state = [j \in Jobs |-> <<>>]
    /\ loaded_from = [j \in Jobs |-> NoPdf]
    /\ state_files = NoStateFiles

\* jobs for different PDFs, one resume setting for all
JobsInit ==
    /\ job_config \in
         {c \in [Jobs -> JobConfigurations] :
             \A j, k \in Jobs :
                 /\ j # k => c[j].pdf_path # c[k].pdf_path
                 /\ c[j].resume_processing_if_interrupted =
                        c[k].resume_processing_if_interrupted}
    /\ JobsIdle

jobs_frame == UNCHANGED <<pipeline_vars, queue_vars, upload_vars, added_vars>>

\* PDFIngestionPipeline(config), lines 75-111
Construct(j) ==
    /\ job_pc[j] = "new"
    /\ output_directory' = [output_directory EXCEPT ![j] = OutputDirectoryOf(job_config[j])]
    /\ job_pc' = [job_pc EXCEPT ![j] = "constructed"]
    /\ UNCHANGED <<job_config, job_state, loaded_from, state_files>>
    /\ jobs_frame

\* the state files left when the one of directory d is unlinked
Unlinked(d) == [e \in (DOMAIN state_files) \ {d} |-> state_files[e]]

\* process_pdf, lines 947-952: the optional reset, then _load_pipeline_state
\* from output_directory / "pipeline_state.json"
LoadState(j) ==
    /\ job_pc[j] = "constructed"
    /\ LET d == output_directory[j]
           kept == IF job_config[j].resume_processing_if_interrupted
                   THEN state_files ELSE Unlinked(d)
       IN /\ state_files' = kept
          /\ job_state' = [job_state EXCEPT ![j] =
                             IF d \in DOMAIN kept THEN kept[d].pages ELSE <<>>]
          /\ loaded_from' = [loaded_from EXCEPT ![j] =
                               IF d \in DOMAIN kept THEN kept[d].writer ELSE NoPdf]
    /\ job_pc' = [job_pc EXCEPT ![j] = "page"]
    /\ UNCHANGED <<job_config, output_directory>>
    /\ jobs_frame

\* process_pdf, lines 955-961, for the next page p of the job: the page is
\* extracted unless the state has it, and the state file is written
ProcessPage(j) ==
    /\ job_pc[j] = "page"
    /\ LET p == Len(job_state[j]) + 1
           d == output_directory[j]
       IN /\ p <= MaxPages
          /\ job_state' = [job_state EXCEPT ![j] = Append(@, p)]
          /\ state_files' =
               (d :> [writer |-> job_config[j].pdf_path, pages |-> job_state'[j]])
                   @@ state_files
    /\ UNCHANGED <<job_config, job_pc, output_directory, loaded_from>>
    /\ jobs_frame

\* process_pdf returns
FinishJob(j) ==
    /\ job_pc[j] = "page"
    /\ Len(job_state[j]) >= MaxPages
    /\ job_pc' = [job_pc EXCEPT ![j] = "done"]
    /\ UNCHANGED <<job_config, output_directory, job_state, loaded_from, state_files>>
    /\ jobs_frame

JobsNext ==
    \E j \in Jobs :
        \/ Construct(j)
        \/ LoadState(j)
        \/ ProcessPage(j)
        \/ FinishJob(j)

\* no job constructed
JobsNone ==
    /\ job_config = [j \in Jobs |->
                       [pdf_path |-> [folder |-> "inbox/", stem |-> <<"r">>],
                        output_directory |-> <<>>,
                        resume_processing_if_interrupted |-> TRUE]]
    /\ JobsIdle

\* ================================================================ uploads
\* main.py, line 66 and line 281: the container every job uploads into
AZURE_STORAGE_OUTPUT_CONTAINER_NAME == "processed"

PdfNames == {"report.pdf", "annex.pdf"}

\* what upload_document_content reads of a DocumentContent: the path of the
\* PDF, the number of pages, whether the post-processing files were written
UploadedDocuments ==
    [folder : Folders, name : PdfNames, total_pages : 1..MaxPages,
     save_text_files : BOOLEAN]

DocumentId(doc) == doc.name \o "_" \o doc.folder

\* upload_document_content, lines 393-402: the container, the names used
\* here needing no sanitizing
ContainerOf(doc, container_name) ==
    IF container_name # "" THEN container_name ELSE DocumentId(doc)

\* _upload_post_processing_content and _upload_data_unit without prefix:
\* the names of the blobs, in the root of the container
PostProcessingBlobs(doc) ==
    (IF doc.save_text_files
     THEN {"condensed_text.md", "table_of_contents.md", "text_twin.md"} ELSE {}) \cup
    {"document_content.json"}

\* _upload_page_content_impl: the names of the blobs of page p (the page
\* image, the combined text, the extracted text)
PageBlobs(p) ==
    {"pages/page_" \o ToString(p) \o "/" \o name :
        name \in {"page_" \o ToString(p) \o ".jpg",
                  "page_" \o ToString(p) \o "_twin.txt",
                  "page_" \o ToString(p) \o ".txt"}}

\* upload_blob over names, by job j into container c: overwrite=True
Uploaded(c, names, j) ==
    [key \in DOMAIN blobs \cup ({c} \X names) |->
        IF key \in {c} \X names THEN j ELSE blobs[key]]

NoBlobs == [key \in {} |-> 0]

UploadsIdle ==
    /\ upload_pc = [j \in Jobs |-> "pdf"]
    /\ upload_page = [j \in Jobs |-> 1]
    /\ blobs = NoBlobs

\* the documents of different PDFs
UploadsInit ==
    /\ uploading \in
         {u \in [Jobs -> UploadedDocuments] :
             \A j, k \in Jobs :
                 j # k => <<u[j].folder, u[j].name>> # <<u[k].folder, u[k].name>>}
    /\ UploadsIdle

UploadsNone ==
    /\ uploading = [j \in Jobs |->
                      [folder |-> "inbox/", name |-> "report.pdf", total_pages |-> 1,
                       save_text_files |-> FALSE]]
    /\ UploadsIdle

upload_frame == UNCHANGED <<pipeline_vars, queue_vars, jobs_vars, added_vars>>

Container(j) == ContainerOf(uploading[j], AZURE_STORAGE_OUTPUT_CONTAINER_NAME)

\* upload_document_content, lines 404-409: the PDF, in the root
UploadPdf(j) ==
    /\ upload_pc[j] = "pdf"
    /\ blobs' = Uploaded(Container(j), {uploading[j].name}, j)
    /\ upload_pc' = [upload_pc EXCEPT ![j] = "post_processing"]
    /\ UNCHANGED <<uploading, upload_page>>
    /\ upload_frame

\* upload_document_content, lines 411-413
UploadPostProcessing(j) ==
    /\ upload_pc[j] = "post_processing"
    /\ blobs' = Uploaded(Container(j), PostProcessingBlobs(uploading[j]), j)
    /\ upload_pc' = [upload_pc EXCEPT ![j] = "pages"]
    /\ UNCHANGED <<uploading, upload_page>>
    /\ upload_frame

\* upload_document_content, lines 415-417: one page of the loop
UploadPage(j) ==
    /\ upload_pc[j] = "pages"
    /\ upload_page[j] <= uploading[j].total_pages
    /\ blobs' = Uploaded(Container(j), PageBlobs(upload_page[j]), j)
    /\ upload_page' = [upload_page EXCEPT ![j] = @ + 1]
    /\ UNCHANGED <<uploading, upload_pc>>
    /\ upload_frame

\* upload_document_content, lines 419-421, save_and_upload_document_content_json
UploadDocumentJson(j) ==
    /\ upload_pc[j] = "pages"
    /\ upload_page[j] > uploading[j].total_pages
    /\ blobs' = Uploaded(Container(j), {"document_content.json"}, j)
    /\ upload_pc' = [upload_pc EXCEPT ![j] = "done"]
    /\ UNCHANGED <<uploading, upload_page>>
    /\ upload_frame

UploadsNext ==
    \E j \in Jobs :
        \/ UploadPdf(j)
        \/ UploadPostProcessing(j)
        \/ UploadPage(j)
        \/ UploadDocumentJson(j)

\* ===================================================== document tree upload
\* A location, local or in the cloud, is a record of its folder and its file
\* name (Path(x).name is x.name); NoPath is None.
Location(dir, name) == [dir |-> dir, name |-> name]
NoPath == Location(None, None)

\* a DataUnit as the upload reads and updates it
StoredUnit(text_file_path, page_image_path) ==
    [text_file_path |-> text_file_path,
     text_file_cloud_storage_path |-> NoPath,
     page_image_path |-> page_image_path,
     page_image_cloud_storage_path |-> NoPath]

NoStoredUnit == StoredUnit(NoPath, NoPath)

StoredPageDir(p) == "pages/page_" \o ToString(p)
StoredPageImage(p) == Location(StoredPageDir(p), "page_" \o ToString(p) \o ".jpg")

\* the PageContent of page p as process_pdf returns it, with v images, t
\* tables and the custom page steps of the configuration
StoredPage(p, v, t, steps) ==
    [page_number |-> p,
     page_image_path |-> StoredPageImage(p),
     page_image_cloud_storage_path |-> NoPath,
     text |-> StoredUnit(Location(StoredPageDir(p), "page_" \o ToString(p) \o ".txt"),
                         StoredPageImage(p)),
     page_text |-> StoredUnit(Location(StoredPageDir(p),
                                       "page_" \o ToString(p) \o "_twin.txt"),
                              StoredPageImage(p)),
     images |-> [i \in 1..v |->
                    [image_path |-> StoredPageImage(p),
                     text |-> StoredUnit(
                                 Location(StoredPageDir(p) \o "/images",
                                          "page_" \o ToString(p) \o "_graph_" \o
                                              ToString(i) \o ".txt"),
                                 StoredPageImage(p))]],
     tables |-> [i \in 1..t |->
                    [text |-> StoredUnit(
                                 Location(StoredPageDir(p) \o "/tables",
                                          "page_" \o ToString(p) \o "_table_" \o
                                              ToString(i) \o ".txt"),
                                 StoredPageImage(p))]],
     custom_page_processing_steps |->
         [i \in 1..Len(steps) |->
             StoredUnit(Location(StoredPageDir(p) \o "/custom_processing",
                                 "page_step_" \o steps[i].name \o ".txt"),
                        StoredPageImage(p))]]

\* the PostProcessingContent process_pdf returns under the switches s
StoredPostProcessing(s) ==
    [condensed_text |-> IF s.generate_condensed_text
                        THEN StoredUnit(Location("", "condensed_text.md"), NoPath)
                        ELSE NoStoredUnit,
     table_of_contents |-> IF s.generate_table_of_contents
                           THEN StoredUnit(Location("", "table_of_contents.md"), NoPath)
                           ELSE NoStoredUnit,
     full_text |-> IF s.save_text_files
                   THEN StoredUnit(Location("", "text_twin.md"), NoPath)
                   ELSE NoStoredUnit,
     document_json |-> StoredUnit(Location("", "document_content.json"), NoPath),
     translated_full_texts |->
         [i \in 1..Len(s.translate_full_text) |->
             StoredUnit(Location("translations",
                                 "full_text_" \o s.translate_full_text[i] \o ".txt"),
                        NoPath)],
     translated_condensed_texts |->
         [i \in 1..Len(s.translate_condensed_text) |->
             StoredUnit(Location("translations",
                                 "condensed_text_" \o s.translate_condensed_text[i] \o
                                     ".txt"),
                        NoPath)],
     custom_document_processing_steps |->
         [i \in 1..Len(s.custom_document_processing_steps) |->
             StoredUnit(Location("custom_processing",
                                 "document_step_" \o
                                     s.custom_document_processing_steps[i].name \o ".txt"),
                        NoPath)]]

StoredDocument(n, v, t, s) ==
    [metadata |-> [document_path |-> Location("inbox", "report.pdf"),
                   cloud_storage_path |-> NoPath],
     post_processing_content |-> StoredPostProcessing(s),
     pages |-> [p \in 1..n |-> StoredPage(p, v, t, s.custom_page_processing_steps)]]

StoredDocuments ==
    {StoredDocument(n, v, t, s) :
        n \in 1..MaxPages, v \in 0..MaxVisuals, t \in 0..MaxVisuals, s \in PostSwitches}

\* the DataUnits of a page, of the post-processing content, of the document
PageUnits(page) ==
    {page.text, page.page_text}
        \cup {page.images[i].text : i \in DOMAIN page.images}
        \cup {page.tables[i].text : i \in DOMAIN page.tables}
        \cup Range(page.custom_page_processing_steps)

PostProcessingUnits(post) ==
    {post.condensed_text, post.table_of_contents, post.full_text, post.document_json}
        \cup Range(post.translated_full_texts)
        \cup Range(post.translated_condensed_texts)
        \cup Range(post.custom_document_processing_steps)

DocumentUnits(doc) ==
    PostProcessingUnits(doc.post_processing_content)
        \cup UNION {PageUnits(doc.pages[p]) : p \in DOMAIN doc.pages}

\* the local paths the document names
DocumentPaths(doc) ==
    ({doc.metadata.document_path}
        \cup {u.text_file_path : u \in DocumentUnits(doc)}
        \cup {u.page_image_path : u \in DocumentUnits(doc)}) \ {NoPath}

\* Path(x).is_file()
is_file(path) == path # NoPath /\ path \in local_files

\* upload_blob: the URI of the blob, f"{account_url}/{container}/{blob}";
\* the names used here are left as they are by the sanitizers
upload_blob(container_name, blob_prefix, name) ==
    Location("https://account.blob.core.windows.net/" \o container_name \o
                 (IF blob_prefix = "" THEN "" ELSE "/" \o blob_prefix),
             name)

\* _upload_data_unit
_upload_data_unit(container_name, data_unit, blob_prefix) ==
    [data_unit EXCEPT
        !.text_file_cloud_storage_path =
            IF is_file(data_unit.text_file_path)
            THEN upload_blob(container_name, blob_prefix, data_unit.text_file_path.name)
            ELSE @,
        !.page_image_cloud_storage_path =
            IF is_file(data_unit.page_image_path)
            THEN upload_blob(container_name, blob_prefix, data_unit.page_image_path.name)
            ELSE @]

\* _upload_post_processing_content: four of the units, in the root
_upload_post_processing_content(post_proc, container_name) ==
    [post_proc EXCEPT
        !.condensed_text = _upload_data_unit(container_name, @, ""),
        !.table_of_contents = _upload_data_unit(container_name, @, ""),
        !.full_text = _upload_data_unit(container_name, @, ""),
        !.document_json = _upload_data_unit(container_name, @, "")]

\* _upload_page_content_impl
_upload_page_content_impl(page_content, container_name) ==
    LET page_prefix == "pages/page_" \o ToString(page_content.page_number)
    IN [page_content EXCEPT
           !.page_image_cloud_storage_path =
               IF is_file(page_content.page_image_path)
               THEN upload_blob(container_name, page_prefix,
                                page_content.page_image_path.name)
               ELSE @,
           !.page_text = _upload_data_unit(container_name, @, page_prefix),
           !.text = _upload_data_unit(container_name, @, page_prefix),
           !.images =
               [i \in DOMAIN @ |->
                   [image_path |->
                        IF is_file(@[i].image_path)
                        THEN upload_blob(container_name, page_prefix \o "/images",
                                         @[i].image_path.name)
                        ELSE @[i].image_path,
                    text |-> _upload_data_unit(container_name, @[i].text,
                                               page_prefix \o "/images")]],
           !.tables =
               [i \in DOMAIN @ |->
                   [text |-> _upload_data_unit(container_name, @[i].text,
                                               page_prefix \o "/tables")]]]

StoreIdle ==
    /\ store_pc = "pdf"
    /\ store_page = 1

\* a document process_pdf returned, all of its files on disk or the combined
\* text of page 1 missing
StoreInit ==
    /\ store_doc \in StoredDocuments
    /\ local_files \in
         {DocumentPaths(store_doc),
          DocumentPaths(store_doc) \ {store_doc.pages[1].page_text.text_file_path}}
    /\ StoreIdle

StoreNone ==
    /\ store_doc = StoredDocument(1, 0, 0, CHOOSE s \in PostSwitches : ~s.save_text_files)
    /\ local_files = {}
    /\ StoreIdle

store_frame ==
    UNCHANGED <<pipeline_vars, queue_vars, jobs_vars, upload_vars, search_vars, names_vars,
                exec_vars,
                index_vars,
                pairing_vars,
                codec_vars,
                intake_vars>>

\* upload_document_content, lines 404-409: the PDF
StorePdf ==
    /\ store_pc = "pdf"
    /\ store_doc' =
         [store_doc EXCEPT !.metadata.cloud_storage_path =
             IF is_file(store_doc.metadata.document_path)
             THEN upload_blob(AZURE_STORAGE_OUTPUT_CONTAINER_NAME, "",
                              store_doc.metadata.document_path.name)
             ELSE @]
    /\ store_pc' = "post_processing"
    /\ UNCHANGED <<local_files, store_page>>
    /\ store_frame

\* upload_document_content, lines 411-413
StorePostProcessing ==
    /\ store_pc = "post_processing"
    /\ store_doc' =
         [store_doc EXCEPT !.post_processing_content =
             _upload_post_processing_content(@, AZURE_STORAGE_OUTPUT_CONTAINER_NAME)]
    /\ store_pc' = "pages"
    /\ UNCHANGED <<local_files, store_page>>
    /\ store_frame

\* upload_document_content, lines 415-417: one page of the loop
StorePage ==
    /\ store_pc = "pages"
    /\ store_page <= Len(store_doc.pages)
    /\ store_doc' =
         [store_doc EXCEPT !.pages[store_page] =
             _upload_page_content_impl(@, AZURE_STORAGE_OUTPUT_CONTAINER_NAME)]
    /\ store_page' = store_page + 1
    /\ UNCHANGED <<local_files, store_pc>>
    /\ store_frame

\* upload_document_content, lines 419-421, save_and_upload_document_content_json:
\* the JSON file is written again and uploaded
StoreDocumentJson ==
    /\ store_pc = "pages"
    /\ store_page > Len(store_doc.pages)
    /\ local_files' =
         local_files \cup {store_doc.post_processing_content.document_json.text_file_path}
    /\ store_doc' =
         [store_doc EXCEPT !.post_processing_content.document_json.text_file_cloud_storage_path =
             upload_blob(AZURE_STORAGE_OUTPUT_CONTAINER_NAME, "", "document_content.json")]
    /\ store_pc' = "done"
    /\ UNCHANGED store_page
    /\ store_frame

StoreNext ==
    \/ StorePdf
    \/ StorePostProcessing
    \/ StorePage
    \/ StoreDocumentJson

\* ================================================================ wide search
\* the first n elements of a list: list[:n], n >= 0
Take(list, n) == SubSeq(list, 1, Min(n, Len(list)))

\* SearchParams as widen_search reads it (query_type is the variable
\* query_type, the field the worker threads share)
SearchParams == [top : 1..MaxTop, top_wide_search : 0..MaxWide]

\* what expand_searh_terms may answer for the query "q"
SearchExpansion ==
    [expanded_terms : {<<>>, <<"q">>, <<"a">>, <<"a", "q">>},
     related_areas : {<<>>, <<"b">>, <<"a">>}]

\* the ranking of the index for a term: by keywords, and by vectors
KeywordRanking(term) ==
    CASE term = "q" -> <<1, 2>> [] term = "a" -> <<2, 3>> [] OTHER -> <<3, 1>>
VectorRanking(term) ==
    CASE term = "q" -> <<2, 1, 3>> [] term = "a" -> <<3, 2>> [] OTHER -> <<1>>

\* search_client.search(search_text, vector_queries, top, query_type): the
\* first top documents of the ranking the request asks for
SearchHits(term, with_vector, request_type, top) ==
    LET ranking == IF with_vector THEN VectorRanking(term) ELSE KeywordRanking(term)
        ids == Take(ranking, top)
    IN [i \in 1..Len(ids) |->
           [index_id |-> ids[i], term |-> term, query_type |-> request_type]]

RECURSIVE Concatenation(_)
\* for r in search_results: composite_results.extend(r)
Concatenation(lists) ==
    IF lists = <<>> THEN <<>> ELSE Head(lists) \o Concatenation(Tail(lists))

\* a result list that drops nothing
KeepAll(results) == results

RECURSIVE DictOfResults(_, _)
\* {result['index_id']: result for result in composite_results}.values():
\* a key stays where it was first inserted and holds the value assigned last
DictOfResults(dict, results) ==
    IF results = <<>> THEN dict
    ELSE LET r == Head(results)
             at == {i \in 1..Len(dict) : dict[i].index_id = r.index_id}
         IN DictOfResults(IF at = {} THEN Append(dict, r)
                          ELSE [dict EXCEPT ![CHOOSE i \in at : TRUE] = r],
                          Tail(results))

UniqueResults(results) == DictOfResults(<<>>, results)

NoThreads == <<>>

SearchIdle ==
    /\ query_type = "semantic"
    /\ search_terms = <<>>
    /\ thread_pc = NoThreads
    /\ thread_vector = NoThreads
    /\ thread_requests = NoThreads
    /\ thread_results = NoThreads
    /\ wide_pc = "idle"
    /\ wide_results = <<>>

SearchInit ==
    /\ search_params \in SearchParams
    /\ expanded \in SearchExpansion
    /\ SearchIdle

SearchNone ==
    /\ search_params = [top |-> 1, top_wide_search |-> 0]
    /\ expanded = [expanded_terms |-> <<>>, related_areas |-> <<>>]
    /\ SearchIdle

search_frame ==
    UNCHANGED <<pipeline_vars, queue_vars, jobs_vars, upload_vars, store_vars, names_vars,
                exec_vars,
                index_vars,
                pairing_vars,
                codec_vars,
                intake_vars>>

\* zip(search_terms, self.search_clients[:len(search_terms)], ...): as many
\* pairs as the shorter of the two lists has elements
ZipWithClients(terms) == Take(terms, Min(Len(terms), SearchClients))

\* widen_search, lines 377-383: the search terms, and one call of
\* widen_step_search per term handed to the pool, all with search_params
StartWideSearch ==
    /\ wide_pc = "idle"
    /\ LET terms == ZipWithClients(
                        <<"q">> \o Take(expanded.expanded_terms, search_params.top_wide_search)
                        \o Take(expanded.related_areas, search_params.top_wide_search))
       IN /\ search_terms' = terms
          /\ thread_pc' = [k \in 1..Len(terms) |-> "set_keyword"]
          /\ thread_vector' = [k \in 1..Len(terms) |-> FALSE]
          /\ thread_requests' = [k \in 1..Len(terms) |-> <<>>]
          /\ thread_results' = [k \in 1..Len(terms) |-> <<>>]
    /\ wide_pc' = "searching"
    /\ UNCHANGED <<search_params, expanded, query_type, wide_results>>
    /\ search_frame

\* widen_step_search, lines 346 and 350: search_params.query_type = ...
SetQueryType(k) ==
    /\ thread_pc[k] \in {"set_keyword", "set_semantic"}
    /\ query_type' = IF thread_pc[k] = "set_keyword" THEN "keyword" ELSE "semantic"
    /\ thread_pc' = [thread_pc EXCEPT ![k] =
                        IF @ = "set_keyword" THEN "keyword_vector" ELSE "semantic_vector"]
    /\ UNCHANGED <<search_params, expanded, search_terms, thread_vector, thread_requests,
                   thread_results, wide_pc, wide_results>>
    /\ search_frame

\* hybrid_search, lines 307-313: the vector query is made when
\* search_params.query_type is "semantic"
MakeVectorQuery(k) ==
    /\ thread_pc[k] \in {"keyword_vector", "semantic_vector"}
    /\ thread_vector' = [thread_vector EXCEPT ![k] = (query_type = "semantic")]
    /\ thread_pc' = [thread_pc EXCEPT ![k] =
                        IF @ = "keyword_vector" THEN "keyword_search" ELSE "semantic_search"]
    /\ UNCHANGED <<search_params, expanded, query_type, search_terms, thread_requests,
                   thread_results, wide_pc, wide_results>>
    /\ search_frame

\* hybrid_search, lines 315-326: the request, of the type
\* search_params.query_type has now, and its results
SearchRequest(k) ==
    /\ thread_pc[k] \in {"keyword_search", "semantic_search"}
    /\ thread_requests' =
         [thread_requests EXCEPT ![k] =
             Append(@, [query_type |-> query_type, with_vector |-> thread_vector[k]])]
    /\ thread_results' =
         [thread_results EXCEPT ![k] =
             @ \o SearchHits(search_terms[k], thread_vector[k], query_type,
                             search_params.top)]
    /\ thread_pc' = [thread_pc EXCEPT ![k] =
                        IF @ = "keyword_search" THEN "set_semantic" ELSE "done"]
    /\ UNCHANGED <<search_params, expanded, query_type, search_terms, thread_vector,
                   wide_pc, wide_results>>
    /\ search_frame

\* widen_search, lines 384-392: the results of the pool in the order of the
\* terms, concatenated and deduplicated
CollectResults ==
    /\ wide_pc = "searching"
    /\ \A k \in DOMAIN thread_pc : thread_pc[k] = "done"
    /\ wide_results' = UniqueResults(Concatenation(thread_results))
    /\ wide_pc' = "returned"
    /\ UNCHANGED <<search_params, expanded, query_type, search_terms, thread_pc,
                   thread_vector, thread_requests, thread_results>>
    /\ search_frame

SearchNext ==
    \/ StartWideSearch
    \/ \E k \in DOMAIN thread_pc :
          \/ SetQueryType(k)
          \/ MakeVectorQuery(k)
          \/ SearchRequest(k)
    \/ CollectResults

\* ========================================================= name sanitizers
\* A name is a sequence of characters (strings of one character).
LowerLetters ==
    {"a", "b", "c", "d", "e", "f", "g", "h", "i", "j", "k", "l", "m", "n", "o", "p",
     "q", "r", "s", "t", "u", "v", "w", "x", "y", "z"}
Digits == {"0", "1", "2", "3", "4", "5", "6", "7", "8", "9"}
\* the characters of [\x00-\x1F\x7F] a name of the model may hold
ControlCharacters == {"\t", "\n"}

\* str.lower() on the characters of the model
Lower(c) == IF c = "A" THEN "a" ELSE IF c = "Z" THEN "z" ELSE c

RECURSIVE CollapseHyphens(_)
\* re.sub(r"-+", "-", name)
CollapseHyphens(name) ==
    IF Len(name) < 2 THEN name
    ELSE IF name[1] = "-" /\ name[2] = "-" THEN CollapseHyphens(Tail(name))
    ELSE <<name[1]>> \o CollapseHyphens(Tail(name))

RECURSIVE TrimLeading(_)
\* while len(name) > 0 and name[0] == "-": name = name[1:]
TrimLeading(name) ==
    IF Len(name) > 0 /\ name[1] = "-" THEN TrimLeading(Tail(name)) ELSE name

RECURSIVE TrimTrailing(_)
\* while len(name) > 0 and name[-1] == "-": name = name[:-1]
TrimTrailing(name) ==
    IF Len(name) > 0 /\ name[Len(name)] = "-"
    THEN TrimTrailing(SubSeq(name, 1, Len(name) - 1)) ELSE name

\* _safe_container_name
_safe_container_name(original_name) ==
    LET lowered == [i \in 1..Len(original_name) |-> Lower(original_name[i])]
        dashed == [i \in 1..Len(lowered) |-> IF lowered[i] = "_" THEN "-" ELSE lowered[i]]
        valid == [i \in 1..Len(dashed) |->
                     IF dashed[i] \in LowerLetters \cup Digits \cup {"-"}
                     THEN dashed[i] ELSE "-"]
        trimmed == TrimTrailing(TrimLeading(CollapseHyphens(valid)))
        padded == IF Len(trimmed) < MinContainerNameLength
                  THEN SubSeq(trimmed \o <<"a", "a", "a">>, 1, MinContainerNameLength)
                  ELSE trimmed
    IN IF Len(padded) > MaxContainerNameLength
       THEN SubSeq(padded, 1, MaxContainerNameLength)
       ELSE padded

RECURSIVE StripTrailing(_)
\* re.sub(r"[./\\]+$", "", name)
StripTrailing(name) ==
    IF Len(name) > 0 /\ name[Len(name)] \in {".", "/", "\\"}
    THEN StripTrailing(SubSeq(name, 1, Len(name) - 1)) ELSE name

\* _safe_blob_name
_safe_blob_name(original_name) ==
    LET printable == SelectSeq(original_name, LAMBDA c : c \notin ControlCharacters)
        stripped == StripTrailing(printable)
        cut == IF Len(stripped) > MaxBlobNameLength
               THEN SubSeq(stripped, 1, MaxBlobNameLength)
               ELSE stripped
    IN IF cut = <<>>
       THEN <<"u", "n", "n", "a", "m", "e", "d", "-", "b", "l", "o", "b">>
       ELSE cut

\* n times the character c
Filled(n, c) == [i \in 1..n |-> c]

\* the ends of the names given to the sanitizers
NameTails(alphabet) == UNION { [1..n -> alphabet] : n \in 0..MaxTail }

\* names short and long: a stretch of letters that ends around the limit of
\* the sanitizer, then a tail
ContainerNames ==
    {Filled(n, "a") \o tail :
        n \in {0, 1, MaxContainerNameLength - 2, MaxContainerNameLength - 1},
        tail \in NameTails({"a", "A", "-", "_"})}
BlobNames ==
    {Filled(n, "a") \o tail :
        n \in {0, MaxBlobNameLength - 2, MaxBlobNameLength - 1},
        tail \in NameTails({"a", ".", "/", "\t"})}

\* the sanitizer of a kind of name
Sanitized(kind, name) ==
    IF kind = "container" THEN _safe_container_name(name) ELSE _safe_blob_name(name)

NamesInit ==
    /\ name_kind \in {"container", "blob"}
    /\ given_name \in (IF name_kind = "container" THEN ContainerNames ELSE BlobNames)
    /\ safe_name = <<>>
    /\ safe_again = <<>>
    /\ name_pc = "given"

NamesNone ==
    /\ name_kind = "container"
    /\ given_name = <<>>
    /\ safe_name = <<>>
    /\ safe_again = <<>>
    /\ name_pc = "given"

names_frame ==
    UNCHANGED <<pipeline_vars, queue_vars, jobs_vars, upload_vars, store_vars, search_vars,
                exec_vars,
                index_vars,
                pairing_vars,
                codec_vars,
                intake_vars>>

\* the sanitizer applied to the name (upload_document_content, line 400)
Sanitize ==
    /\ name_pc = "given"
    /\ safe_name' = Sanitized(name_kind, given_name)
    /\ name_pc' = "safe"
    /\ UNCHANGED <<name_kind, given_name, safe_again>>
    /\ names_frame

\* the sanitizer applied to its own result (upload_blob, lines 175-176,
\* given the name upload_document_content sanitized)
SanitizeAgain ==
    /\ name_pc = "safe"
    /\ safe_again' = Sanitized(name_kind, safe_name)
    /\ name_pc' = "safe_again"
    /\ UNCHANGED <<name_kind, given_name, safe_name>>
    /\ names_frame

NamesNext ==
    \/ Sanitize
    \/ SanitizeAgain

\* ============================================ DocumentIngestionJob.execute_job
\* orchestration/document_ingestion_job.py.  execute_job (lines 72-82) calls
\* process_pdf, store_pdf_content, index_pdf_content and
\* save_document_to_cosmos one after the other, with no try/except:
\* index_pdf_content (lines 52-57) creates or updates the index and then hands
\* the search units to index_documents.  The document database helper
\* (database/cosmos_helpers.py) is modelled by what the specification says of
\* record_manifest.
ExecSteps ==
    <<"process_pdf", "store_pdf_content", "create_or_update_index", "index_documents",
      "save_document_to_cosmos">>

ExecDocuments == 1..MaxDocuments

\* the methods DynamicAzureIndexBuilder defines (azure_ai_index_builder.py,
\* lines 75-519) among those a job may call
IndexBuilderMethods ==
    {"create_or_update_index", "upload_documents", "document_content_to_search_units"}

\* the exception a step leaves execute_job with, None when it returns:
\* line 56 looks index_documents up on the index builder, which has no such
\* attribute; every other step raises when the service it calls does
StepError(step, fails) ==
    IF step = "index_documents" /\ step \notin IndexBuilderMethods THEN "AttributeError"
    ELSE IF fails # 0 /\ ExecSteps[fails] = step THEN "ServiceError"
    ELSE None

\* the statement of execute_job that follows a step
StepAfter(step) ==
    LET i == CHOOSE k \in 1..Len(ExecSteps) : ExecSteps[k] = step
    IN  IF i = Len(ExecSteps) THEN "returned" ELSE ExecSteps[i + 1]

\* no job has run yet: nothing uploaded, no index, no manifest
ExecNone ==
    /\ exec_pc = "idle"
    /\ exec_doc = 0
    /\ exec_fails = 0
    /\ exec_log = <<>>
    /\ exec_error = None
    /\ job_document = None
    /\ cloud_docs = {}
    /\ index_exists = FALSE
    /\ indexed_docs = {}
    /\ manifests = {}
    /\ executions = 0

exec_frame ==
    UNCHANGED <<pipeline_vars, queue_vars, jobs_vars, upload_vars, store_vars, search_vars,
                names_vars,
                index_vars,
                pairing_vars,
                codec_vars,
                intake_vars>>

\* a job is constructed for a PDF (lines 30-36: self.document = None) and
\* execute_job is called (main.py, lines 280-281); which of the services
\* fails during the call is the input
ExecuteJob(d, f) ==
    /\ exec_pc \in {"idle", "returned", "raised"}
    /\ executions < MaxExecutions
    /\ executions' = executions + 1
    /\ exec_doc' = d
    /\ exec_fails' = f
    /\ exec_log' = <<>>
    /\ exec_error' = None
    /\ job_document' = None
    /\ exec_pc' = ExecSteps[1]
    /\ UNCHANGED <<cloud_docs, index_exists, indexed_docs, manifests>>
    /\ exec_frame

\* one statement of execute_job: an exception leaves execute_job at once,
\* otherwise the step takes effect and the next statement follows
ExecStep ==
    /\ exec_pc \in Range(ExecSteps)
    /\ LET error == StepError(exec_pc, exec_fails)
       IN  IF error # None
           THEN /\ exec_pc' = "raised"
                /\ exec_error' = error
                /\ UNCHANGED <<exec_log, job_document, cloud_docs, index_exists,
                               indexed_docs, manifests>>
           ELSE /\ exec_pc' = StepAfter(exec_pc)
                /\ exec_log' = Append(exec_log, exec_pc)
                /\ exec_error' = None
                \* process_pdf, lines 39-44; store_pdf_content, lines 47-49
                /\ job_document' =
                        CASE exec_pc = "process_pdf" -> "processed"
                          [] exec_pc = "store_pdf_content" -> "uploaded"
                          [] OTHER -> job_document
                /\ cloud_docs' =
                        IF exec_pc = "store_pdf_content" THEN cloud_docs \cup {exec_doc}
                        ELSE cloud_docs
                \* index_pdf_content, lines 53-54 and 55-56
                /\ index_exists' = (index_exists \/ exec_pc = "create_or_update_index")
                /\ indexed_docs' =
                        IF exec_pc = "index_documents" THEN indexed_docs \cup {exec_doc}
                        ELSE indexed_docs
                \* save_document_to_cosmos, lines 60-69
                /\ manifests' =
                        IF exec_pc = "save_document_to_cosmos" THEN manifests \cup {exec_doc}
                        ELSE manifests
    /\ UNCHANGED <<exec_doc, exec_fails, executions>>
    /\ exec_frame

ExecNext ==
    \/ \E d \in ExecDocuments, f \in 0..Len(ExecSteps) : ExecuteJob(d, f)
    \/ ExecStep

\* ================================== DynamicAzureIndexBuilder: the upload path
\* search/azure_ai_index_builder.py.  __init__ (lines 75-110) leaves
\* key_field_name None; build_index (lines 134-146), which
\* create_or_update_index calls, sets it; upload_documents (lines 209-254)
\* gives a document a key only under "if self.key_field_name is not None".

\* the fields of SearchUnit a document is made of (obj.dict()), as far as the
\* key is concerned: SearchUnit declares no index_id
SearchUnitFields == {"page_number", "unit_type", "text"}

\* build_index, lines 134-146: the final key field
FinalKeyField(name) == IF name = None THEN "index_id" ELSE name

\* uuid.uuid4(): the n-th value drawn, every one new
uuid4(n) == "uuid-" \o ToString(n)

\* the batches a caller hands to upload_documents: units of pages
UnitBatches == UNION { [1..n -> 1..MaxPages] : n \in 1..2 }

\* upload_documents, lines 242-246: the document of a unit with its key, n
\* uuid4 values having been drawn before
Keyed(key, page, n) ==
    [page_number |-> page,
     key_field |-> key,
     index_id |-> IF key # None /\ key \notin SearchUnitFields THEN uuid4(n + 1)
                  ELSE None]

IndexNone ==
    /\ key_field_name = None
    /\ index_built = FALSE
    /\ sent = <<>>
    /\ uuids = 0
    /\ builders = 0

\* one builder constructed, nothing sent
IndexInit ==
    /\ key_field_name = None
    /\ index_built = FALSE
    /\ sent = <<>>
    /\ uuids = 0
    /\ builders = 1

index_frame ==
    UNCHANGED <<pipeline_vars, queue_vars, jobs_vars, upload_vars, store_vars, search_vars,
                names_vars, exec_vars,
                pairing_vars,
                codec_vars,
                intake_vars>>

\* __init__, line 93: another builder over the same index (the search side
\* of orchestration/multimodal_search.py constructs its own)
NewBuilder ==
    /\ builders < MaxBuilders
    /\ builders' = builders + 1
    /\ key_field_name' = None
    /\ UNCHANGED <<index_built, sent, uuids>>
    /\ index_frame

\* create_or_update_index, lines 182-203, with build_index
CreateOrUpdateIndex(name) ==
    /\ key_field_name' = FinalKeyField(name)
    /\ index_built' = TRUE
    /\ UNCHANGED <<sent, uuids, builders>>
    /\ index_frame

\* upload_documents, lines 209-254
UploadDocuments(units) ==
    /\ Len(sent) + Len(units) <= MaxSent
    /\ LET docs == [i \in 1..Len(units) |-> Keyed(key_field_name, units[i], uuids + i - 1)]
       IN  /\ sent' = sent \o docs
           /\ uuids' = uuids + Cardinality({i \in 1..Len(docs) : docs[i].index_id # None})
    /\ UNCHANGED <<key_field_name, index_built, builders>>
    /\ index_frame

IndexNext ==
    \/ NewBuilder
    \/ \E name \in {None, "page_number"} : CreateOrUpdateIndex(name)
    \/ \E units \in UnitBatches : UploadDocuments(units)

\* ============================== wide search: the terms and the search clients
\* widen_search, lines 380-383, for answers of expand_searh_terms long enough
\* for the terms to outnumber the clients of __init__ (lines 106-110).
ExpandedTerms(n) == [i \in 1..n |-> "e" \o ToString(i)]
RelatedAreas(n) == [i \in 1..n |-> "r" \o ToString(i)]

\* search_terms of widen_search, line 380
WideSearchTerms(query, expansion, top_wide_search) ==
    <<query>> \o Take(expansion.expanded_terms, top_wide_search)
              \o Take(expansion.related_areas, top_wide_search)

PairingNone ==
    /\ pairing_top = 0
    /\ pairing_terms = [expanded_terms |-> <<>>, related_areas |-> <<>>]
    /\ paired = <<>>
    /\ pairing_pc = "idle"

PairingInit ==
    /\ pairing_top \in 0..MaxTerms
    /\ pairing_terms \in
          { [expanded_terms |-> ExpandedTerms(n), related_areas |-> RelatedAreas(m)] :
            n \in 0..MaxTerms, m \in 0..MaxTerms }
    /\ paired = <<>>
    /\ pairing_pc = "idle"

pairing_frame ==
    UNCHANGED <<pipeline_vars, queue_vars, jobs_vars, upload_vars, store_vars, search_vars,
                names_vars, exec_vars, index_vars, codec_vars,
                intake_vars>>

\* widen_search, lines 380-383: the terms that reach the pool
PairTerms ==
    /\ pairing_pc = "idle"
    /\ paired' = ZipWithClients(WideSearchTerms("q", pairing_terms, pairing_top))
    /\ pairing_pc' = "searching"
    /\ UNCHANGED <<pairing_top, pairing_terms>>
    /\ pairing_frame

PairingNext == PairTerms

\* ================= ProcessingPipelineConfiguration: to_json and from_json_dict
\* multimodal_processing_pipeline/configuration_models.py.  A model descriptor
\* is an instance of MulitmodalProcessingModelInfo or of
\* TextProcessingModelnfo (utils/openai_data_models.py, lines 87-116); its
\* class is its family.  model_dump writes the fields of a descriptor, not its
\* class.
ModelInfo(family, model_name, client) ==
    [isNone |-> FALSE, family |-> family, model_name |-> model_name, client |-> client]

NoModelInfo == [isNone |-> TRUE, family |-> "none", model_name |-> "", client |-> "null"]

\* the descriptors of each class, with a client bound or not
MulitmodalProcessingModelInfo ==
    {ModelInfo("multimodal", n, c) : n \in {"gpt-4o", "o1"}, c \in {"null", "bound"}}
TextProcessingModelnfo ==
    {ModelInfo("text", n, c) : n \in {"gpt-4o", "o1", "o1-mini"}, c \in {"null", "bound"}}

\* CustomProcessingStep: ai_model is a descriptor of either class, or None
ConfiguredStep(name, ai_model) == [name |-> name, ai_model |-> ai_model]

StepLists(names) ==
    UNION { { [i \in 1..n |-> ConfiguredStep(names[i], m[i])] :
              m \in [1..n -> {d \in MulitmodalProcessingModelInfo \cup TextProcessingModelnfo :
                                 d.client = "null"} \cup {NoModelInfo}] } :
            n \in 0..MaxSteps }

CodecConfigurations ==
    { [pdf_path |-> "doc.pdf",
       process_images |-> i,
       multimodal_model |-> mm,
       text_model |-> tm,
       custom_page_processing_steps |-> steps] :
      i \in BOOLEAN,
      mm \in {d \in MulitmodalProcessingModelInfo : d.model_name = "gpt-4o"},
      tm \in {d \in TextProcessingModelnfo : d.model_name = "o1-mini"},
      steps \in StepLists(<<"kw", "summary">>) }

\* model_dump of a descriptor, with to_json's data[...]['client'] = None
DumpedModel(m) ==
    [isNone |-> m.isNone, model_name |-> m.model_name, client |-> "null"]

\* to_json, lines 46-67
to_json(c) ==
    [pdf_path |-> c.pdf_path,
     process_images |-> c.process_images,
     multimodal_model |-> DumpedModel(c.multimodal_model),
     text_model |-> DumpedModel(c.text_model),
     custom_page_processing_steps |->
        [i \in 1..Len(c.custom_page_processing_steps) |->
            [name |-> c.custom_page_processing_steps[i].name,
             ai_model |-> DumpedModel(c.custom_page_processing_steps[i].ai_model)]]]

\* from_json_dict, lines 133-154: the class of a step's descriptor is chosen
\* by its model name; a descriptor is built with no client
StepModelFromJson(model_json) ==
    IF model_json.isNone THEN NoModelInfo
    ELSE IF model_json.model_name \in {"gpt-4o", "gpt-45", "o1"}
    THEN ModelInfo("multimodal", model_json.model_name, "null")
    ELSE ModelInfo("text", model_json.model_name, "null")

\* from_json_dict, lines 75-204
from_json_dict(config_json) ==
    [pdf_path |-> config_json.pdf_path,
     process_images |-> config_json.process_images,
     multimodal_model |->
        ModelInfo("multimodal", config_json.multimodal_model.model_name, "null"),
     text_model |-> ModelInfo("text", config_json.text_model.model_name, "null"),
     custom_page_processing_steps |->
        [i \in 1..Len(config_json.custom_page_processing_steps) |->
            ConfiguredStep(config_json.custom_page_processing_steps[i].name,
                StepModelFromJson(config_json.custom_page_processing_steps[i].ai_model))]]

\* apply_page_processing_steps, lines 406-411: imgs = [page_image_path] for a
\* step with no descriptor or a multimodal one, [] otherwise
AttachesImage(step) == step.ai_model.isNone \/ step.ai_model.family = "multimodal"

NoJson ==
    [pdf_path |-> "", process_images |-> FALSE, multimodal_model |-> DumpedModel(NoModelInfo),
     text_model |-> DumpedModel(NoModelInfo), custom_page_processing_steps |-> <<>>]
NoConfiguration ==
    [pdf_path |-> "", process_images |-> FALSE, multimodal_model |-> NoModelInfo,
     text_model |-> NoModelInfo, custom_page_processing_steps |-> <<>>]

CodecNone ==
    /\ codec_config = NoConfiguration
    /\ codec_json = NoJson
    /\ codec_loaded = NoConfiguration
    /\ codec_images = <<>>
    /\ codec_pc = "idle"

CodecInit ==
    /\ codec_config \in CodecConfigurations
    /\ codec_json = NoJson
    /\ codec_loaded = NoConfiguration
    /\ codec_images = <<>>
    /\ codec_pc = "built"

codec_frame ==
    UNCHANGED <<pipeline_vars, queue_vars, jobs_vars, upload_vars, store_vars, search_vars,
                names_vars, exec_vars, index_vars, pairing_vars, intake_vars>>

\* c.to_json()
ToJson ==
    /\ codec_pc = "built"
    /\ codec_json' = to_json(codec_config)
    /\ codec_pc' = "dumped"
    /\ UNCHANGED <<codec_config, codec_loaded, codec_images>>
    /\ codec_frame

\* ProcessingPipelineConfiguration.from_json_dict(config_json)
FromJsonDict ==
    /\ codec_pc = "dumped"
    /\ codec_loaded' = from_json_dict(codec_json)
    /\ codec_pc' = "loaded"
    /\ UNCHANGED <<codec_config, codec_json, codec_images>>
    /\ codec_frame

\* the custom steps of a page run under the loaded configuration
RunPageSteps ==
    /\ codec_pc = "loaded"
    /\ codec_images' =
          [i \in 1..Len(codec_loaded.custom_page_processing_steps) |->
              AttachesImage(codec_loaded.custom_page_processing_steps[i])]
    /\ codec_pc' = "ran"
    /\ UNCHANGED <<codec_config, codec_json, codec_loaded>>
    /\ codec_frame

CodecNext ==
    \/ ToJson
    \/ FromJsonDict
    \/ RunPageSteps

\* ====================== a configuration descriptor, from builder to consumer
\* processing/jobs/create_config_from_doc.py and processing/jobs/main.py.
\* A name is a sequence of pieces of text, a URL a sequence of segments.
LocalDocuments == {<<"report", ".pdf">>, <<"plan", ".pdf">>}
ConfigNames == {<<>>, <<"cfg">>, <<"cfg", ".json">>}

\* AzureBlobStorage.upload_blob, line 185: the URI of the uploaded blob
BlobUrl(container, blob) == <<"account_url", container, blob>>

\* url.split("/")[-1]
LastSegment(url) == url[Len(url)]

\* create_config_from_document, lines 99-103: the name of the descriptor
DescriptorName(local_path, config_name) ==
    IF config_name = <<>> THEN <<local_path[1], "_config.json">>
    ELSE IF config_name[Len(config_name)] # ".json" THEN config_name \o <<".json">>
    ELSE config_name

\* create_config_from_document, lines 82-97: the default configuration of
\* the document at document_url
DefaultConfiguration(document_url) ==
    [pdf_path |-> document_url,
     process_images |-> TRUE,
     multimodal_model |-> ModelInfo("multimodal", "gpt-4o", "null"),
     text_model |-> ModelInfo("text", "gpt-4o", "null"),
     custom_page_processing_steps |-> <<>>]

\* the methods AzureBlobStorage defines (storage/azure_blob_storage.py)
AzureBlobStorageMethods ==
    {"create_container", "delete_container", "list_containers", "upload_blob",
     "download_blob", "delete_blob", "list_blobs", "create_sas_url", "upload_folder",
     "download_folder", "upload_document_content",
     "save_and_upload_document_content_json", "upload_page_content"}

NoFile == [missing |-> TRUE]
NoUrl == <<>>

IntakeNone ==
    /\ json_container = [n \in {} |-> NoFile]
    /\ event_url = NoUrl
    /\ written_config = NoConfiguration
    /\ json_file = NoFile
    /\ loaded_config = NoConfiguration
    /\ job_started = FALSE
    /\ intake_pc = "idle"

IntakeInit ==
    /\ json_container = [n \in {} |-> NoFile]
    /\ event_url = NoUrl
    /\ written_config = NoConfiguration
    /\ json_file = NoFile
    /\ loaded_config = NoConfiguration
    /\ job_started = FALSE
    /\ intake_pc = "start"

intake_frame ==
    UNCHANGED <<pipeline_vars, queue_vars, jobs_vars, upload_vars, store_vars, search_vars,
                names_vars, exec_vars, index_vars, pairing_vars, codec_vars>>

\* create_config_from_document, lines 43-127: the document is uploaded, the
\* default configuration built, config.to_json() dumped to a file and the
\* file uploaded to the upload-JSON container, which raises the event
CreateConfigFromDocument ==
    /\ intake_pc = "start"
    /\ \E local_path \in LocalDocuments, config_name \in ConfigNames :
         LET document_url == BlobUrl("documents", local_path)
             built == DefaultConfiguration(document_url)
             name == DescriptorName(local_path, config_name)
         IN /\ written_config' = built
            /\ json_container' = (name :> to_json(built)) @@ json_container
            /\ event_url' = BlobUrl("upload_json", name)
    /\ intake_pc' = "built"
    /\ UNCHANGED <<json_file, loaded_config, job_started>>
    /\ intake_frame

\* a descriptor in the layout receive_messages reads (main.py, line 273): the
\* configuration under the key "configuration"
UploadKeyedDescriptor ==
    /\ intake_pc = "start"
    /\ \E local_path \in LocalDocuments, c \in CodecConfigurations :
         LET built == [c EXCEPT !.pdf_path = BlobUrl("documents", local_path)]
             name == <<local_path[1], ".json">>
         IN /\ written_config' = built
            /\ json_container' = (name :> [configuration |-> to_json(built)]) @@ json_container
            /\ event_url' = BlobUrl("upload_json", name)
    /\ intake_pc' = "keyed"
    /\ UNCHANGED <<json_file, loaded_config, job_started>>
    /\ intake_frame

\* receive_messages, lines 253-270: the blob named by the last segment of
\* data.url is downloaded from the upload-JSON container and parsed
DownloadDescriptor ==
    /\ intake_pc \in {"built", "keyed"}
    /\ json_file' = json_container[LastSegment(event_url)]
    /\ intake_pc' = "downloaded"
    /\ UNCHANGED <<json_container, event_url, written_config, loaded_config, job_started>>
    /\ intake_frame

\* line 273, from_json_dict(json_file['configuration']): a file without the
\* key raises KeyError, which "except Exception" (line 284) prints before
\* the loop continues
LoadConfiguration ==
    /\ intake_pc = "downloaded"
    /\ IF "configuration" \in DOMAIN json_file
       THEN /\ loaded_config' = from_json_dict(json_file.configuration)
            /\ intake_pc' = "loaded"
       ELSE /\ intake_pc' = "skipped"
            /\ UNCHANGED loaded_config
    /\ UNCHANGED <<json_container, event_url, written_config, json_file, job_started>>
    /\ intake_frame

\* lines 274-281: storage.download_blob_url(config.pdf_path), then the job;
\* a method the storage class does not define raises AttributeError, caught
\* like every other exception of the message
StartJob ==
    /\ intake_pc = "loaded"
    /\ IF "download_blob_url" \in AzureBlobStorageMethods
       THEN /\ loaded_config' = [loaded_config EXCEPT !.pdf_path = <<LastSegment(@)>>]
            /\ job_started' = TRUE
            /\ intake_pc' = "started"
       ELSE /\ intake_pc' = "skipped"
            /\ UNCHANGED <<loaded_config, job_started>>
    /\ UNCHANGED <<json_container, event_url, written_config, json_file>>
    /\ intake_frame

IntakeNext ==
    \/ CreateConfigFromDocument
    \/ UploadKeyedDescriptor
    \/ DownloadDescriptor
    \/ LoadConfiguration
    \/ StartJob

\* the pipeline at rest, for the specifications of the other components
PipelineIdle ==
    /\ config = CHOOSE c \in ProcessingPipelineConfiguration :
                    /\ c.resume_processing_if_interrupted
                    /\ c.process_images /\ c.process_tables /\ c.save_text_files
    /\ total_pages = 0
    /\ faulty_disk = FALSE
    /\ Constructed

\* the consumer at rest with an empty queue
QueueEmpty == broker_queue = <<>> /\ QueueIdle

Init == PipelineInit /\ QueueEmpty /\ JobsNone /\ UploadsNone /\ StoreNone /\ SearchNone /\ NamesNone /\ ExecNone /\ IndexNone /\ PairingNone /\ CodecNone /\ IntakeNone
Spec == Init /\ [][PipelineNext]_vars

InitFaults == FaultyInit /\ QueueEmpty /\ JobsNone /\ UploadsNone /\ StoreNone /\ SearchNone /\ NamesNone /\ ExecNone /\ IndexNone /\ PairingNone /\ CodecNone /\ IntakeNone
SpecFaults == InitFaults /\ [][PipelineNext]_vars

InitQueue == PipelineIdle /\ QueueInit /\ JobsNone /\ UploadsNone /\ StoreNone /\ SearchNone /\ NamesNone /\ ExecNone /\ IndexNone /\ PairingNone /\ CodecNone /\ IntakeNone
SpecQueue == InitQueue /\ [][QueueNext]_vars

InitJobs == PipelineIdle /\ QueueEmpty /\ JobsInit /\ UploadsNone /\ StoreNone /\ SearchNone /\ NamesNone /\ ExecNone /\ IndexNone /\ PairingNone /\ CodecNone /\ IntakeNone
SpecJobs == InitJobs /\ [][JobsNext]_vars

InitUploads == PipelineIdle /\ QueueEmpty /\ JobsNone /\ UploadsInit /\ StoreNone /\ SearchNone /\ NamesNone /\ ExecNone /\ IndexNone /\ PairingNone /\ CodecNone /\ IntakeNone
SpecUploads == InitUploads /\ [][UploadsNext]_vars

InitStore == PipelineIdle /\ QueueEmpty /\ JobsNone /\ UploadsNone /\ StoreInit /\ SearchNone /\ NamesNone /\ ExecNone /\ IndexNone /\ PairingNone /\ CodecNone /\ IntakeNone
SpecStore == InitStore /\ [][StoreNext]_vars

InitSearch ==
    PipelineIdle /\ QueueEmpty /\ JobsNone /\ UploadsNone /\ StoreNone /\ SearchInit
        /\ NamesNone /\ ExecNone /\ IndexNone /\ PairingNone /\ CodecNone /\ IntakeNone
SpecSearch == InitSearch /\ [][SearchNext]_vars

InitNames ==
    PipelineIdle /\ QueueEmpty /\ JobsNone /\ UploadsNone /\ StoreNone /\ SearchNone
        /\ NamesInit /\ ExecNone /\ IndexNone /\ PairingNone /\ CodecNone /\ IntakeNone
SpecNames == InitNames /\ [][NamesNext]_vars

InitSwitches ==
    SwitchesInit /\ QueueEmpty /\ JobsNone /\ UploadsNone /\ StoreNone /\ SearchNone
        /\ NamesNone /\ ExecNone /\ IndexNone /\ PairingNone /\ CodecNone /\ IntakeNone
SpecSwitches == InitSwitches /\ [][PipelineNext]_vars

InitIndex ==
    PipelineIdle /\ QueueEmpty /\ JobsNone /\ UploadsNone /\ StoreNone /\ SearchNone
        /\ NamesNone /\ ExecNone /\ IndexInit /\ PairingNone /\ CodecNone /\ IntakeNone
SpecIndex == InitIndex /\ [][IndexNext]_vars

InitPairing ==
    PipelineIdle /\ QueueEmpty /\ JobsNone /\ UploadsNone /\ StoreNone /\ SearchNone
        /\ NamesNone /\ ExecNone /\ IndexNone /\ PairingInit /\ CodecNone /\ IntakeNone
SpecPairing == InitPairing /\ [][PairingNext]_vars

InitCodec ==
    PipelineIdle /\ QueueEmpty /\ JobsNone /\ UploadsNone /\ StoreNone /\ SearchNone
        /\ NamesNone /\ ExecNone /\ IndexNone /\ PairingNone /\ CodecInit /\ IntakeNone
SpecCodec == InitCodec /\ [][CodecNext]_vars

InitIntake ==
    PipelineIdle /\ QueueEmpty /\ JobsNone /\ UploadsNone /\ StoreNone /\ SearchNone
        /\ NamesNone /\ ExecNone /\ IndexNone /\ PairingNone /\ CodecNone /\ IntakeInit
SpecIntake == InitIntake /\ [][IntakeNext]_vars

InitExec ==
    PipelineIdle /\ QueueEmpty /\ JobsNone /\ UploadsNone /\ StoreNone /\ SearchNone
        /\ NamesNone /\ ExecNone /\ IndexNone /\ PairingNone /\ CodecNone /\ IntakeNone
SpecExec == InitExec /\ [][ExecNext]_vars

\* =================================================================== claims
DoneLists ==
    {"text_extracted_pages", "custom_page_processing", "images_extracted_pages",
     "tables_extracted_pages"}
Resuming == config.resume_processing_if_interrupted
PersistedPages(list) == IF state_file.exists THEN Range(state_file.data[list]) ELSE {}
PersistedDone == state_file.exists /\ state_file.data.post_processing_done

C2_ResumedRunWritesSameDocument ==
    Resuming =>
        \A k \in 1..(Len(json_runs) - 1) :
            json_runs[k + 1].run = json_runs[k].run + 1 =>
                json_runs[k + 1].document = json_runs[k].document

StageList(stage) ==
    CASE stage = "text" -> "text_extracted_pages"
      [] stage = "images" -> "images_extracted_pages"
      [] stage = "tables" -> "tables_extracted_pages"
      [] OTHER -> "custom_page_processing"

\* C3: once a stage has failed on a page the run has stopped (no later stage
\* or page is handled), and the page is not in the persisted done-list of
\* the failing stage.
C3_FailedStageStopsTheRun ==
    stage_failed # NoFailure =>
        /\ pc = "dead"
        /\ stage_failed.page \notin PersistedPages(StageList(stage_failed.stage))

\* C3 witness of the failure itself: a stage has failed on page 1 and the
\* run goes on with page 2
C3_Witness == stage_failed # NoFailure /\ stage_failed.page = 1 /\ page_number = 2

\* C4: in a step of a run (any step but the start of a run, which may reset
\* the state) every page of each of the four done-lists of
\* pipeline_state.json stays in that list, and, unless the process ends in
\* that step, every page of each done-list in memory stays in it.
C4_DoneListsOnlyGrow ==
    [][pc \notin Ended =>
          \A list \in DoneLists :
              /\ PersistedPages(list) \subseteq PersistedPages(list)'
              /\ pc' # "dead" =>
                    Range(pipeline_state[list]) \subseteq Range(pipeline_state'[list])]_vars

\* C4 witness: a resumed run is saving page 2 over a file that holds page 1
C4_Witness ==
    /\ pc = "finish_page" /\ page_number = 2 /\ run = 2
    /\ PersistedPages("text_extracted_pages") = {1}
    /\ PersistedPages("images_extracted_pages") = {1}
    /\ Range(pipeline_state.text_extracted_pages) = {1, 2}

\* C5: in every step that does not delete pipeline_state.json, a persisted
\* post_processing_done = true stays true, and no post-processing step is
\* then about to execute: the flag goes from false to true at most once and
\* post-processing is not repeated.
C5_PostProcessingOnce ==
    [][(PersistedDone /\ state_file'.exists) =>
          /\ PersistedDone'
          /\ pc' \notin PostProcessingPcs
          /\ pipeline_state.post_processing_done /\ pc' # "dead"
                => pipeline_state'.post_processing_done]_vars

\* C5 witness: a second run over the directory of a completed run has
\* reloaded the post-processing files instead of producing them again
C5_Witness ==
    /\ Resuming /\ run = 2 /\ pc = "save_json" /\ PersistedDone
    /\ Len(json_runs) = 1 /\ total_pages = 2

StageRankAsStated(stage) ==
    CASE stage = "text" -> 1 [] stage = "images" -> 2 [] stage = "tables" -> 3
      [] stage = "custom_page" -> 4 [] OTHER -> 5

StageRank(stage) ==
    CASE stage = "text" -> 1 [] stage = "images" -> 2 [] stage = "tables" -> 3
      [] stage = "combine" -> 4 [] OTHER -> 5

C7_HandledMessagesAreCompleted ==
    consumer_pc \in {"loop", "closing", "idle"} => handled \subseteq completed

\* C8: when receive_messages ends, every message of the batch it received
\* has been handled and has been completed.
C8_WholeBatchHandledAndCompleted ==
    consumer_pc = "closing" => (batch \subseteq handled /\ batch \subseteq completed)

\* C9: when the jobs are for different PDFs and all leave output_directory
\* unset, no two constructed jobs have the same output directory, and no job
\* loads a pipeline_state.json written by the job of another PDF.
C9_JobsDoNotShareState ==
    (\A j \in Jobs : job_config[j].output_directory = <<>>) =>
        /\ \A j, k \in Jobs :
              (j # k /\ job_pc[j] # "new" /\ job_pc[k] # "new")
                  => output_directory[j] # output_directory[k]
        /\ \A j \in Jobs : loaded_from[j] \in {NoPdf, job_config[j].pdf_path}

\* C10: a blob that holds a file of one document never comes to hold a file
\* of another: no upload step changes the document of an existing blob.
C10_NoBlobOverwritten ==
    [][\A key \in DOMAIN blobs : blobs'[key] = blobs[key]]_vars

\* C11: when upload_document_content has returned, every DataUnit of the
\* document whose local text file exists carries a cloud path of that file.
C11_UploadedUnitsHaveCloudPaths ==
    store_pc = "done" =>
        \A u \in DocumentUnits(store_doc) :
            is_file(u.text_file_path) => u.text_file_cloud_storage_path # NoPath

\* the local path fields of a document, without its cloud fields
LocalPathsOfUnit(u) == <<u.text_file_path, u.page_image_path>>
LocalPathsOfPage(page) ==
    <<page.page_image_path, LocalPathsOfUnit(page.text), LocalPathsOfUnit(page.page_text),
      [i \in DOMAIN page.images |->
          <<page.images[i].image_path, LocalPathsOfUnit(page.images[i].text)>>],
      [i \in DOMAIN page.tables |-> LocalPathsOfUnit(page.tables[i].text)],
      [i \in DOMAIN page.custom_page_processing_steps |->
          LocalPathsOfUnit(page.custom_page_processing_steps[i])]>>
LocalPaths(doc) ==
    <<doc.metadata.document_path,
      [p \in DOMAIN doc.pages |-> LocalPathsOfPage(doc.pages[p])],
      {LocalPathsOfUnit(u) : u \in PostProcessingUnits(doc.post_processing_content)}>>

\* C12: no step of the upload changes a local path field of the document
\* (text_file_path, page_image_path, image_path, document_path).
C12_UploadKeepsLocalPaths ==
    [][LocalPaths(store_doc') = LocalPaths(store_doc)]_vars

\* C13: a worker whose widen_step_search has returned has sent exactly two
\* requests for its term, one of keyword type (without a vector query) and
\* one of semantic type (with a vector query).
C13_OneKeywordOneSemanticPass ==
    \A k \in DOMAIN thread_pc :
        thread_pc[k] = "done" =>
            thread_requests[k] =
                <<[query_type |-> "keyword", with_vector |-> FALSE],
                  [query_type |-> "semantic", with_vector |-> TRUE]>>

\* the place where an index_id is first seen in a list of results
FirstSeen(results, id) ==
    CHOOSE i \in 1..Len(results) :
        /\ results[i].index_id = id
        /\ \A j \in 1..(i - 1) : results[j].index_id # id

\* C14: what widen_search returns has no two results of one index_id, holds
\* every index_id of the concatenated per-term results, in the order in
\* which they are first seen there, and has at most
\* top * (2 * (1 + 2 * top_wide_search)) results.
C14_WideSearchDeduplicates ==
    wide_pc = "returned" =>
        LET all == Concatenation(thread_results)
            out == wide_results
        IN /\ \A a, b \in 1..Len(out) : a # b => out[a].index_id # out[b].index_id
           /\ {out[a].index_id : a \in 1..Len(out)} = {all[i].index_id : i \in 1..Len(all)}
           /\ \A a, b \in 1..Len(out) :
                 a < b => FirstSeen(all, out[a].index_id) < FirstSeen(all, out[b].index_id)
           /\ Len(out) <= search_params.top * (2 * (1 + 2 * search_params.top_wide_search))

\* C14 witness: a wide search over a repeated term has returned fewer
\* results than the passes found
C14_Witness ==
    /\ wide_pc = "returned"
    /\ search_terms = <<"q", "q", "a">>
    /\ search_params.top = 2
    /\ Len(Concatenation(thread_results)) = 12
    /\ Len(wide_results) = 3

\* C15: a sanitizer applied to its own result gives that result again.
C15_SanitizersIdempotent == name_pc = "safe_again" => safe_again = safe_name

\* C16: the name _safe_container_name returns has 3 to 63 characters, all
\* of them lowercase letters, digits or hyphens, does not begin or end with
\* a hyphen and has no two hyphens in a row.
C16_ContainerNameValid ==
    (name_kind = "container" /\ name_pc # "given") =>
        /\ Len(safe_name) >= 3 /\ Len(safe_name) <= 63
        /\ Range(safe_name) \subseteq LowerLetters \cup Digits \cup {"-"}
        /\ safe_name[1] # "-" /\ safe_name[Len(safe_name)] # "-"
        /\ \A i \in 1..(Len(safe_name) - 1) : ~(safe_name[i] = "-" /\ safe_name[i + 1] = "-")

\* the DocumentContents returned by the runs that completed
ReturnedDocuments == {json_runs[k].document : k \in 1..Len(json_runs)}

\* C17: the full_text of every DocumentContent process_pdf returns is the
\* newline-join, in page order, of the page_text of its pages.
C17_FullTextIsJoinOfPageTexts ==
    \A D \in ReturnedDocuments :
        D.full_text = JoinLines([i \in 1..Len(D.pages) |-> D.pages[i].page_text.text])

\* C18: every DocumentContent process_pdf returns, and the saved
\* document_content.json, has total_pages pages, numbered 1, 2, ... in order.
C18_PagesAreNumberedInOrder ==
    \A D \in ReturnedDocuments \cup (IF document_json.present THEN {document_json} ELSE {}) :
        /\ Len(D.pages) = D.total_pages
        /\ D.total_pages = total_pages
        /\ \A i \in 1..Len(D.pages) : D.pages[i].page_number = i

\* C18 witness: a first run and a resumed run have both returned the
\* document of a two-page PDF
C18_Witness ==
    /\ Len(json_runs) = 2 /\ total_pages = 2 /\ Resuming
    /\ document_json.present /\ Len(document_json.pages) = 2

\* C20: the failure of a translation or of a custom document step does not
\* end the run: process_pdf goes on to the remaining steps and to
\* document_content.json.
C20_PostProcessingFailureIsLocal ==
    stage_failed.stage = "post_processing" => pc # "dead"

\* C19: execute_job performs process_pdf, the upload, the index
\* create/update, the unit indexing and the manifest recording in that order,
\* each at most once; the steps a call has performed when it ends are those
\* before the first step that failed, all five when no service failed; and a
\* manifest is recorded only for a document that was uploaded and indexed.
PerformedUntil(f) == SubSeq(ExecSteps, 1, IF f = 0 THEN Len(ExecSteps) ELSE f - 1)
C19_JobStepsInOrder ==
    /\ \E n \in 0..Len(ExecSteps) : exec_log = SubSeq(ExecSteps, 1, n)
    /\ exec_pc \in {"returned", "raised"} => exec_log = PerformedUntil(exec_fails)
    /\ manifests \subseteq (cloud_docs \cap indexed_docs)

\* C21: in a fresh output directory a run produces an artifact kind only when
\* its switch is on: without process_images no page has an images folder and
\* no page is listed in images_extracted_pages, in memory or in the state
\* file; the same for process_tables and the tables; and text_twin.md,
\* condensed_text.md and table_of_contents.md exist only with save_text_files,
\* generate_condensed_text and generate_table_of_contents.
NothingOf(switch, folder, list) ==
    ~config[switch] =>
        /\ \A p \in 1..MaxPages : (PageDir(p) \o folder) \notin dirs
        /\ pipeline_state[list] = <<>>
        /\ state_file.data[list] = <<>>
OnlyWith(switch, path) == ~config[switch] => path \notin DOMAIN files
C21_ArtifactsFollowSwitches ==
    run = 1 =>
        /\ NothingOf("process_images", "/images", "images_extracted_pages")
        /\ NothingOf("process_tables", "/tables", "tables_extracted_pages")
        /\ OnlyWith("save_text_files", "text_twin.md")
        /\ OnlyWith("generate_condensed_text", "condensed_text.md")
        /\ OnlyWith("generate_table_of_contents", "table_of_contents.md")
\* a first run has ended with the tables and the condensed text made, the
\* images, the text twin and the table of contents switched off
C21_Witness ==
    /\ run = 1 /\ pc = "done"
    /\ ~config.process_images /\ config.process_tables
    /\ ~config.save_text_files /\ config.generate_condensed_text
    /\ ~config.generate_table_of_contents
    /\ (PageDir(1) \o "/tables") \in dirs
    /\ "condensed_text.md" \in DOMAIN files

\* C23: with process_pages_as_jpg off, after a run every page has its image
\* as page_N.png and no page folder holds a .jpg, whichever of process_text,
\* process_images and process_tables are on.
C23_PngPagesLeaveNoJpg ==
    (pc = "done" /\ ~config.process_pages_as_jpg) =>
        \A p \in 1..total_pages :
            /\ PageImagePath(config, p) \in DOMAIN files
            /\ PageJpgPath(p) \notin DOMAIN files

\* C22: a second run with the same configuration over the same output
\* directory leaves exactly the files and folders the first run left.
C22_SecondRunLeavesSameFiles ==
    \A k \in 1..(Len(json_runs) - 1) :
        json_runs[k + 1].run = json_runs[k].run + 1 =>
            json_runs[k + 1].listing = json_runs[k].listing

\* C24: every document the upload path sends to the search index carries a
\* key value: the builder holds a key field when it sends, a document whose
\* fields do not include the key gets a uuid4 for it, and no two documents
\* get the same one; this for any order of the builder's operations, an
\* upload before build_index or create_or_update_index included.
C24_SentDocumentsCarryKey ==
    /\ \A i \in 1..Len(sent) :
          /\ sent[i].key_field # None
          /\ sent[i].key_field \notin SearchUnitFields => sent[i].index_id # None
    /\ \A i, j \in 1..Len(sent) :
          (i # j /\ sent[i].index_id # None) => sent[i].index_id # sent[j].index_id

\* C25: a call of hybrid_search issues exactly one search request, and for
\* both query types the request carries a vector query beside the keyword
\* text; its type is semantic or simple (keyword) as params.query_type says.
HybridSearchCalls(k) ==
    CASE thread_pc[k] \in {"set_keyword", "keyword_vector", "keyword_search"} -> 0
      [] thread_pc[k] \in {"set_semantic", "semantic_vector", "semantic_search"} -> 1
      [] OTHER -> 2
C25_OneRequestWithVector ==
    \A k \in DOMAIN thread_pc :
        /\ Len(thread_requests[k]) = HybridSearchCalls(k)
        /\ \A i \in 1..Len(thread_requests[k]) :
              /\ thread_requests[k][i].with_vector
              /\ thread_requests[k][i].query_type \in {"semantic", "keyword"}

\* C29: wide search issues searches for every query of Q = {original query}
\* with the first k expanded terms and the first k related areas,
\* k = top_wide_search, for every k, also when Q has more queries than the
\* builder has search clients.
C29_EveryQuerySearched ==
    pairing_pc = "searching" =>
        Range(paired) =
            {"q"} \cup Range(Take(pairing_terms.expanded_terms, pairing_top))
                  \cup Range(Take(pairing_terms.related_areas, pairing_top))

\* C26: in every PipelineState, in memory and in pipeline_state.json, each of
\* the four done collections holds a page number at most once, after any
\* number of fresh or resumed runs.
NoPageTwice(list) == \A i, j \in 1..Len(list) : list[i] = list[j] => i = j
C26_DoneCollectionsAreSets ==
    \A list \in {"text_extracted_pages", "custom_page_processing",
                 "images_extracted_pages", "tables_extracted_pages"} :
        /\ NoPageTwice(pipeline_state[list])
        /\ NoPageTwice(state_file.data[list])

\* C28: for a page whose stages are recorded as done, what a resumed run
\* reloads from disk equals what the stages originally produced: the same
\* images in the same order with the same image_type, the same tables with
\* the same markdown text and summary, and so the same combined page text.
ImageTypes(page) == [i \in 1..Len(page.images) |-> page.images[i].image_type]
TableTexts(page) ==
    [i \in 1..Len(page.tables) |->
        <<page.tables[i].text.text, page.tables[i].summary>>]
C28_ReloadedEqualsProduced ==
    \A k \in 1..(Len(json_runs) - 1) :
        (Resuming /\ json_runs[k + 1].run = json_runs[k].run + 1) =>
            LET first == json_runs[k].document.pages
                again == json_runs[k + 1].document.pages
            IN  /\ Len(again) = Len(first)
                /\ \A p \in 1..Len(first) :
                      /\ ImageTypes(again[p]) = ImageTypes(first[p])
                      /\ TableTexts(again[p]) = TableTexts(first[p])
                      /\ again[p].page_text.text = first[p].page_text.text

\* C27: from_json_dict(to_json(c)) equals c on every field but the client
\* handles, which are null; in particular every custom step keeps the family
\* of its model descriptor, and a step declared with a text-only descriptor
\* gets no page image attached when it runs after the round trip.
WithoutClients(c) ==
    [c EXCEPT !.multimodal_model.client = "null",
              !.text_model.client = "null",
              !.custom_page_processing_steps =
                 [i \in 1..Len(@) |-> [@[i] EXCEPT !.ai_model.client = "null"]]]
C27_ConfigurationRoundTrip ==
    /\ codec_pc \in {"loaded", "ran"} => codec_loaded = WithoutClients(codec_config)
    /\ codec_pc = "ran" =>
          \A i \in 1..Len(codec_config.custom_page_processing_steps) :
              codec_config.custom_page_processing_steps[i].ai_model.family = "text"
                  => ~codec_images[i]

\* C30: a descriptor that create_config_from_document uploaded to the
\* upload-JSON container is accepted by the queue consumer: once the consumer
\* is through with the message, it has loaded a configuration whose fields
\* equal those the builder wrote and has started the ingestion job.
BuilderWrote == to_json(written_config) \in {json_container[n] : n \in DOMAIN json_container}
C30_BuilderDescriptorAccepted ==
    (BuilderWrote /\ intake_pc \in {"started", "skipped"}) =>
        /\ job_started
        /\ [loaded_config EXCEPT !.pdf_path = written_config.pdf_path] = written_config

====
